---------------------------- MODULE Spec2Model ----------------------------
(***************************************************************************)
(* Model of the-watcher (src/watcher_bot.js): the MarketDetector class     *)
(* (sliding trade window, per-market cooldown map, checkSignals            *)
(* classification), the global-market poll that feeds it, the wallet       *)
(* tracker and the message handlers of the add-wallet dialogue.            *)
(*                                                                         *)
(* Amounts are finite non-negative numbers, kept as integers (USD).  The   *)
(* buy/sell ratio is a JavaScript number; it is kept exactly, as a         *)
(* fraction num/den, and compared by cross-multiplication.                 *)
(* The wall clock Date.now() is the variable now; it only moves forward.   *)
(***************************************************************************)
EXTENDS Integers, Sequences, FiniteSets, TLC

(***************************************************************************)
(* Program constants.                                                      *)
(***************************************************************************)
WindowMs == 60000
CooldownMs == 300000
ClusterMinUSD == 10000
SurgeMinUSD == 15000
MinBuyers == 3
MinRatio == 3
GlobalScanInterval == 15000
FetchLimit == 3
MaxRatio == 100
MaxWallets == 5

(***************************************************************************)
(* Bounds of the model.                                                    *)
(***************************************************************************)
MaxWindow == 4
MaxTimedWindow == 2
StartTime == 1000000
MaxPolls == 2
MaxUpstream == 2
MaxMessages == 4
MaxHandlers == 2
MaxStarts == 2
MaxScans == 2
MaxChanges == 2

VARIABLES
    now,             \* Date.now()
    tradeWindow,     \* MarketDetector.tradeWindow
    alertCooldowns,  \* MarketDetector.alertCooldowns: marketId -> epoch ms
    signals,         \* value returned by the latest checkSignals call
    lastOp,          \* history: the latest operation
    alertLog,        \* history: per market, the clock times of its signals
    checkedAt,       \* history: clock time of the latest checkSignals call
                     \* made since the latest addTrade, or NoTime
    entry,           \* history: what the latest operation found on entry
    feed,            \* upstream: per market, its trades, newest first
    pollFailed,      \* history: markets whose fetch failed in the latest poll
    dispatched,      \* history: the messages the latest poll sent
    pollFound,       \* history: User.find of the latest poll resolved
    db,              \* the users collection: chatId -> wallets
    latest,          \* upstream: per address, how many records it has made
    scan,            \* the scanSpecificWallets call in progress
    pass,            \* the periodic pass (Loop 1) in progress, or the latest
    ended,           \* history: how the latest scan ended, what it sent
    walletCheck,     \* history: the latest completed check of one wallet
    seen,            \* history: per wallet, the record its latest check
                     \* alerted for and stored
    alive,           \* the process is running
    userState,       \* userState: chatId -> step and pending address
    inflight,        \* name-step handlers suspended at an await
    received,        \* number of messages received
    addressText,     \* history: per chat, the text it sent in the address step
    nameStep,        \* history: how the latest name-step handler ended
    message,         \* history: the latest message and the branch it took
    fmtIn,           \* the signal handed to formatAlert, and by which program
    fmtOut,          \* what formatAlert returned for it
    polls,           \* the scanGlobalMarket invocations in progress
    started,         \* number of invocations the timer has started
    checker,         \* history: the invocation that ran checkSignals last
    scanners,        \* the overlapping scans of one watchlist
    alertsSent,      \* history: the wallet alerts of the overlapping scans
    scansStarted,    \* number of overlapping scans started
    file,            \* part_001: the content of the JSON file
    fileScan,        \* part_001: the scanUser call in progress
    fileLog          \* part_001: history of the watchlist changes

detectorVars ==
    <<now, tradeWindow, alertCooldowns, signals, lastOp, alertLog, checkedAt,
      entry>>

pollVars == <<feed, pollFailed, dispatched, pollFound>>

trackerVars == <<db, latest, scan, pass, ended, walletCheck, seen, alive>>

chatVars == <<userState, inflight, received, addressText, nameStep, message>>

\* the detector's variables but lastOp
detectorFrame ==
    <<now, tradeWindow, alertCooldowns, signals, alertLog, checkedAt, entry>>

formatVars == <<fmtIn, fmtOut>>

\* the variables of the scenarios that stand apart from the main program
pollProcVars == <<polls, started, checker>>

scansVars == <<scanners, alertsSent, scansStarted>>

fileVars == <<file, fileScan, fileLog>>

auxVars == <<formatVars, pollProcVars, scansVars, fileVars>>

vars == <<detectorVars, pollVars, trackerVars, chatVars, auxVars>>

NoTime == 0 - 1

Markets == {"m1", "m2"}

\* null, of a string-valued field
Null == "null"

Chats == {"c1", "c2"}

\* the wallets of the stored watchlists, by chat and position
Slots == {<<"c1", 1>>, <<"c1", 2>>, <<"c2", 1>>}
Users == {"u1", "u2", "u3"}

(***************************************************************************)
(* Clock values the model visits: the start, and the boundaries of the     *)
(* retention horizon and of the cooldown after it.                         *)
(***************************************************************************)
Instants ==
    {StartTime + d : d \in {0, WindowMs - 1, WindowMs, WindowMs + 1,
                            CooldownMs - 1, CooldownMs, CooldownMs + 1}}

Trade(ts, m, side, amount, user) ==
    [timestamp |-> ts, amountUSD |-> amount, user |-> user, marketId |-> m,
     marketName |-> "Q", marketSlug |-> "slug", outcome |-> "Yes", side |-> side]

\* Trades of the clock scenarios: a buy that qualifies on its own, fresh or
\* exactly at the retention horizon, and a fresh buy that does not.
TimedTrades(n) ==
    {Trade(n - age, m, "Buy", SurgeMinUSD + 1, "u1") :
        age \in {0, WindowMs}, m \in Markets}
    \cup {Trade(n, m, "Buy", SurgeMinUSD, "u1") : m \in Markets}

\* Trades of the classification scenarios: one market, fresh trades, amounts
\* that add up to the thresholds and to one more.
VolumeTrades(n) ==
    {Trade(n, "m1", "Buy", a, u) : a \in {2500, 5000, 5001}, u \in Users}
    \cup {Trade(n, "m1", "Sell", a, "u3") : a \in {5000, 5001}}

(***************************************************************************)
(* addTrade                                                                *)
(***************************************************************************)
KeepLate(t, cutoff) == t.timestamp > cutoff - 2

Keep(t, cutoff) == t.timestamp > cutoff

Prune(w, cutoff) == SelectSeq(w, LAMBDA t : Keep(t, cutoff))

NoEntry == [window |-> <<>>, cooldowns |-> <<>>, checkedAt |-> NoTime]

AddTrade(t) ==
    /\ tradeWindow' = Prune(Append(tradeWindow, t), now - WindowMs)
    /\ lastOp' = "addTrade"
    /\ checkedAt' = NoTime
    /\ entry' = [NoEntry EXCEPT !.window = Append(tradeWindow, t)]
    /\ UNCHANGED <<now, alertCooldowns, signals, alertLog>>
    /\ UNCHANGED <<pollVars, trackerVars, chatVars, auxVars>>

(***************************************************************************)
(* checkSignals                                                            *)
(***************************************************************************)
\* keys of groups, in insertion order
RECURSIVE GroupIds(_)
GroupIds(w) ==
    IF w = <<>> THEN <<>>
    ELSE LET front == GroupIds(SubSeq(w, 1, Len(w) - 1))
             m == w[Len(w)].marketId
         IN  IF \E i \in 1..Len(front) : front[i] = m THEN front
             ELSE Append(front, m)

GroupSellsByName(w, m) ==
    LET mine == SelectSeq(w, LAMBDA t : t.marketId = m)
    IN  [buys  |-> SelectSeq(mine, LAMBDA t : t.side = "Buy"),
         sells |-> SelectSeq(mine, LAMBDA t : t.side = "Sell"),
         meta  |-> mine[1]]

GroupMetaLatest(w, m) ==
    LET mine == SelectSeq(w, LAMBDA t : t.marketId = m)
    IN  [buys  |-> SelectSeq(mine, LAMBDA t : t.side = "Buy"),
         sells |-> SelectSeq(mine, LAMBDA t : t.side # "Buy"),
         meta  |-> mine[Len(mine)]]

Group(w, m) ==
    LET mine == SelectSeq(w, LAMBDA t : t.marketId = m)
    IN  [buys  |-> SelectSeq(mine, LAMBDA t : t.side = "Buy"),
         sells |-> SelectSeq(mine, LAMBDA t : t.side # "Buy"),
         meta  |-> mine[1]]

\* the JavaScript number NaN; the amounts of the model are not negative.
\* Every ordering comparison with NaN is false, as it is with a negative
\* number against the thresholds and against 0.
NaN == 0 - 1

\* a + b
JsAdd(a, b) == IF a = NaN \/ b = NaN THEN NaN ELSE a + b

\* a * b
JsTimes(a, b) == IF a = NaN \/ b = NaN THEN NaN ELSE a * b

\* reduce((sum, t) => sum + t.amountUSD, 0)
RECURSIVE SumAmount(_)
SumAmount(s) ==
    IF s = <<>> THEN 0
    ELSE JsAdd(SumAmount(SubSeq(s, 1, Len(s) - 1)), s[Len(s)].amountUSD)

BuyVolAllSides(data) == JsAdd(SumAmount(data.buys), SumAmount(data.sells))

BuyVol(data) == SumAmount(data.buys)

SellVol(data) == SumAmount(data.sells)

InCooldownInclusive(cd, m, n) ==
    /\ m \in DOMAIN cd
    /\ cd[m] # 0
    /\ n - cd[m] <= CooldownMs

InCooldownWindow(cd, m, n) ==
    /\ m \in DOMAIN cd
    /\ cd[m] # 0
    /\ n - cd[m] < WindowMs

InCooldown(cd, m, n) ==
    /\ m \in DOMAIN cd
    /\ cd[m] # 0
    /\ n - cd[m] < CooldownMs

\* sellVol === 0 ? buyVol : (buyVol / sellVol)
Ratio(buyVol, sellVol) ==
    IF sellVol = 0 THEN [num |-> buyVol, den |-> 1]
    ELSE IF buyVol = NaN \/ sellVol = NaN THEN [num |-> NaN, den |-> 1]
    ELSE [num |-> buyVol, den |-> sellVol]

RatioSkipInclusive(sellVol, ratio) ==
    sellVol > 0 /\ ratio.num # NaN /\ ratio.num <= MinRatio * ratio.den

\* sellVol > 0 && ratio < 3.0
RatioSkip(sellVol, ratio) ==
    sellVol > 0 /\ ratio.num # NaN /\ ratio.num < MinRatio * ratio.den

UniqueBuyers(data) ==
    Cardinality({data.buys[i].user : i \in 1..Len(data.buys)})

AlertTypeClusterInclusive(uniqueBuyers, buyVol) ==
    IF uniqueBuyers >= MinBuyers /\ buyVol >= ClusterMinUSD THEN "WOLF_PACK"
    ELSE IF buyVol > SurgeMinUSD THEN "VOLUME_SURGE"
    ELSE "null"

AlertTypeSurgeInclusive(uniqueBuyers, buyVol) ==
    IF uniqueBuyers >= MinBuyers /\ buyVol > ClusterMinUSD THEN "WOLF_PACK"
    ELSE IF buyVol >= SurgeMinUSD THEN "VOLUME_SURGE"
    ELSE "null"

AlertType(uniqueBuyers, buyVol) ==
    IF uniqueBuyers >= MinBuyers /\ buyVol > ClusterMinUSD THEN "WOLF_PACK"
    ELSE IF buyVol > SurgeMinUSD THEN "VOLUME_SURGE"
    ELSE "null"

Stamp(cd, m, n) ==
    [k \in (DOMAIN cd) \cup {m} |-> IF k = m THEN n ELSE cd[k]]

MakeSignal(alertType, m, data, buyVol, uniqueBuyers, ratio) ==
    [type |-> alertType, marketName |-> data.meta.marketName,
     outcome |-> data.meta.outcome, totalVol |-> buyVol,
     uniqueWallets |-> uniqueBuyers, ratio |-> ratio, marketId |-> m]

AnalyzeStampsFirst(acc, m, data, n) ==
    IF InCooldown(acc.cooldowns, m, n) THEN acc
    ELSE LET buyVol == BuyVol(data)
             sellVol == SellVol(data)
             ratio == Ratio(buyVol, sellVol)
             stamped == Stamp(acc.cooldowns, m, n)
         IN  IF RatioSkip(sellVol, ratio) THEN acc
             ELSE LET uniqueBuyers == UniqueBuyers(data)
                      alertType == AlertType(uniqueBuyers, buyVol)
                  IN  [cooldowns |-> stamped,
                       signals |-> IF alertType # "null"
                                   THEN Append(acc.signals,
                                       MakeSignal(alertType, m, data, buyVol,
                                                  uniqueBuyers, ratio))
                                   ELSE acc.signals]

\* one iteration of the loop over Object.entries(groups)
Analyze(acc, m, data, n) ==
    IF InCooldown(acc.cooldowns, m, n) THEN acc
    ELSE LET buyVol == BuyVol(data)
             sellVol == SellVol(data)
             ratio == Ratio(buyVol, sellVol)
         IN  IF RatioSkip(sellVol, ratio) THEN acc
             ELSE LET uniqueBuyers == UniqueBuyers(data)
                      alertType == AlertType(uniqueBuyers, buyVol)
                  IN  IF alertType # "null"
                      THEN [cooldowns |-> Stamp(acc.cooldowns, m, n),
                            signals |-> Append(acc.signals,
                                MakeSignal(alertType, m, data, buyVol,
                                           uniqueBuyers, ratio))]
                      ELSE acc

RECURSIVE Scan(_, _, _, _)
Scan(ids, w, cd, n) ==
    IF ids = <<>> THEN [cooldowns |-> cd, signals |-> <<>>]
    ELSE LET m == ids[Len(ids)]
         IN  Analyze(Scan(SubSeq(ids, 1, Len(ids) - 1), w, cd, n),
                     m, Group(w, m), n)

Signalled(sigs) == {sigs[i].marketId : i \in 1..Len(sigs)}

CheckSignalsPrunes ==
    LET w == Prune(tradeWindow, now - WindowMs)
        res == Scan(GroupIds(w), w, alertCooldowns, now)
    IN  /\ tradeWindow' = w
        /\ alertCooldowns' = res.cooldowns
        /\ signals' = res.signals
        /\ lastOp' = "checkSignals"
        /\ checkedAt' = now
        /\ entry' = [NoEntry EXCEPT !.cooldowns = alertCooldowns,
                                    !.checkedAt = checkedAt]
        /\ alertLog' = [m \in Markets |->
                          IF m \in Signalled(res.signals)
                          THEN Append(alertLog[m], now) ELSE alertLog[m]]
        /\ UNCHANGED now
        /\ UNCHANGED <<pollVars, trackerVars, chatVars, auxVars>>

CheckSignals ==
    LET res == Scan(GroupIds(tradeWindow), tradeWindow, alertCooldowns, now)
    IN  /\ alertCooldowns' = res.cooldowns
        /\ signals' = res.signals
        /\ lastOp' = "checkSignals"
        /\ checkedAt' = now
        /\ entry' = [NoEntry EXCEPT !.cooldowns = alertCooldowns,
                                    !.checkedAt = checkedAt]
        /\ alertLog' = [m \in Markets |->
                          IF m \in Signalled(res.signals)
                          THEN Append(alertLog[m], now) ELSE alertLog[m]]
        /\ UNCHANGED <<now, tradeWindow>>
        /\ UNCHANGED <<pollVars, trackerVars, chatVars, auxVars>>

(***************************************************************************)
(* The wall clock moves forward between calls.                             *)
(***************************************************************************)
Tick ==
    /\ \E n \in Instants : n > now /\ now' = n
    /\ lastOp' = "tick"
    /\ entry' = NoEntry
    /\ UNCHANGED <<tradeWindow, alertCooldowns, signals, alertLog, checkedAt>>
    /\ UNCHANGED <<pollVars, trackerVars, chatVars, auxVars>>

InitDetector ==
    /\ now = StartTime
    /\ tradeWindow = <<>>
    /\ alertCooldowns = <<>>
    /\ signals = <<>>
    /\ lastOp = "new"
    /\ alertLog = [m \in Markets |-> <<>>]
    /\ checkedAt = NoTime
    /\ entry = NoEntry

InitPoll ==
    /\ feed = [m \in Markets |-> <<>>]
    /\ pollFailed = {}
    /\ dispatched = <<>>
    /\ pollFound = TRUE

NoEnd == [how |-> "none", isManual |-> FALSE]

NoCheck == [chatId |-> Null, i |-> 0]

NoFormat == [variant |-> "none"]

\* nothing has been formatted, no scenario that stands apart has begun
NoFormatYet ==
    /\ fmtIn = NoFormat
    /\ fmtOut = NoFormat

NoPollSteps ==
    /\ polls = <<>>
    /\ started = 0
    /\ checker = 0

NoScanners ==
    /\ scanners = <<>>
    /\ alertsSent = <<>>
    /\ scansStarted = 0

NoFile ==
    /\ file = <<>>
    /\ fileScan = [pc |-> "idle"]
    /\ fileLog = [changes |-> 0]

InitAux ==
    /\ NoFormatYet
    /\ NoPollSteps
    /\ NoScanners
    /\ NoFile

\* const userState = {}; the handler gives a chat the entry { step: null }
\* before it reads it
InitChat ==
    /\ userState = [c \in Chats |-> [step |-> Null,
                                     tempAddress |-> <<"undefined">>]]
    /\ inflight = <<>>
    /\ received = 0
    /\ addressText = [c \in Chats |-> <<>>]
    /\ nameStep = [chatId |-> Null, event |-> "none"]
    /\ message = [chatId |-> Null, text |-> <<>>, did |-> "none"]

\* a new deployment: empty collections, nothing in progress
Init ==
    /\ InitDetector
    /\ InitPoll
    /\ InitChat
    /\ InitAux
    /\ db = <<>>
    /\ latest = <<>>
    /\ scan = [pc |-> "idle"]
    /\ pass = [pc |-> "idle"]
    /\ ended = NoEnd
    /\ walletCheck = NoCheck
    /\ seen = <<>>
    /\ alive = TRUE

AddTimedTrade ==
    /\ Len(tradeWindow) < MaxTimedWindow
    /\ \E t \in TimedTrades(now) : AddTrade(t)

AddVolumeTrade ==
    /\ Len(tradeWindow) < MaxWindow
    /\ \E t \in VolumeTrades(now) : AddTrade(t)

Next == AddTimedTrade \/ CheckSignals \/ Tick

Spec == Init /\ [][Next]_vars

NextClassify == AddVolumeTrade \/ CheckSignals

\* Trades of the grouping scenarios: a purchase of one outcome of a market
\* that qualifies on its own, a small purchase of the other outcome, and a
\* trade whose side is spelt as the upstream spells it.
GroupingTrades(n) ==
    {Trade(n, m, "Buy", SurgeMinUSD + 1, "u1") : m \in Markets}
    \cup {[Trade(n, "m1", "Buy", 1, "u2") EXCEPT !.outcome = "No"]}
    \cup {Trade(n, "m1", "BUY", 1, "u3")}

AddGroupingTrade ==
    /\ Len(tradeWindow) < MaxWindow
    /\ \E t \in GroupingTrades(now) : AddTrade(t)

\* the clock passes the retention horizon
TickOverHorizon ==
    /\ now = StartTime
    /\ now' = StartTime + WindowMs
    /\ lastOp' = "tick"
    /\ entry' = NoEntry
    /\ UNCHANGED <<tradeWindow, alertCooldowns, signals, alertLog, checkedAt>>
    /\ UNCHANGED <<pollVars, trackerVars, chatVars, auxVars>>

NextGrouping == AddGroupingTrade \/ CheckSignals \/ TickOverHorizon

SpecGrouping == Init /\ [][NextGrouping]_vars

SpecClassify == Init /\ [][NextClassify]_vars

(***************************************************************************)
(* scanGlobalMarket, run by the 15 s timer.  The upstream activity feed    *)
(* of a market is feed[m]; a fetch returns its FetchLimit newest records   *)
(* or fails.  Upstream timestamps are epoch milliseconds, sizes and prices *)
(* numbers.  The fetches run concurrently and complete in any order; the   *)
(* poll is one step of the model, the clock read once for it.              *)
(***************************************************************************)
\* a field of an upstream record: given with a number, or absent
Given(v) == [given |-> TRUE, value |-> v]

Absent == [given |-> FALSE]

UpstreamRecord(ts, side, size, taker) ==
    [timestamp |-> ts, side |-> side, size |-> size, price |-> Given(1),
     taker |-> taker, outcome |-> "Yes"]

\* parseFloat(v): NaN for undefined
ParseFloat(v) == IF v.given THEN v.value ELSE NaN

\* the number of trades of market m made since the start
Made(m) == Len(SelectSeq(feed[m], LAMBDA t : t.timestamp >= StartTime))

\* a trade happens upstream; no two trades of a market carry one timestamp
UpstreamTrade ==
    /\ \E m \in Markets, side \in {"BUY", "SELL"} :
          /\ IF feed[m] = <<>> THEN TRUE ELSE feed[m][1].timestamp < now
          /\ Made("m1") + Made("m2") < MaxUpstream
          /\ feed' = [feed EXCEPT ![m] =
                 <<UpstreamRecord(now, side, Given(SurgeMinUSD + 1), "u1")>>
                 \o @]
    /\ lastOp' = "upstream"
    /\ UNCHANGED <<now, tradeWindow, alertCooldowns, signals, alertLog,
                   checkedAt, entry, pollFailed, dispatched, pollFound>>
    /\ UNCHANGED <<trackerVars, chatVars, auxVars>>

\* a trade happens upstream whose record comes without a size
UpstreamMalformed ==
    /\ \E m \in {"m1"} :
          /\ IF feed[m] = <<>> THEN TRUE ELSE feed[m][1].timestamp < now
          /\ Made("m1") + Made("m2") < MaxUpstream
          /\ feed' = [feed EXCEPT ![m] =
                 <<UpstreamRecord(now, "BUY", Absent, "u2")>> \o @]
    /\ lastOp' = "upstream"
    /\ UNCHANGED <<now, tradeWindow, alertCooldowns, signals, alertLog,
                   checkedAt, entry, pollFailed, dispatched, pollFound>>
    /\ UNCHANGED <<trackerVars, chatVars, auxVars>>

\* the response of the activity endpoint for one market (limit: 3)
Fetch(m) == SubSeq(feed[m], 1, IF Len(feed[m]) < FetchLimit
                               THEN Len(feed[m]) ELSE FetchLimit)

IngestUpstreamSide(t, m) ==
    [timestamp |-> t.timestamp,
     amountUSD |-> JsTimes(ParseFloat(t.size), ParseFloat(t.price)),
     user |-> t.taker, marketId |-> m, marketName |-> "Q",
     marketSlug |-> "slug", outcome |-> t.outcome, side |-> t.side]

\* the object handed to detector.addTrade
Ingest(t, m) ==
    [timestamp |-> t.timestamp,
     amountUSD |-> JsTimes(ParseFloat(t.size), ParseFloat(t.price)),
     user |-> t.taker, marketId |-> m, marketName |-> "Q",
     marketSlug |-> "slug", outcome |-> t.outcome, side |-> "Buy"]

\* trades.forEach: every record with side 'BUY' goes through addTrade
RECURSIVE Feed(_, _, _, _)
Feed(w, trades, m, n) ==
    IF trades = <<>> THEN w
    ELSE LET t == trades[1]
             rest == SubSeq(trades, 2, Len(trades))
         IN  IF t.side = "BUY"
             THEN Feed(Prune(Append(w, Ingest(t, m)), n - WindowMs), rest, m, n)
             ELSE Feed(w, rest, m, n)

FetchedUntilFailure(order, failed) ==
    LET bad == {i \in 1..Len(order) : order[i] \in failed}
    IN  IF bad = {} THEN order
        ELSE SubSeq(order, 1, (CHOOSE i \in bad : \A j \in bad : i <= j) - 1)

\* the markets whose callback reaches trades.forEach: each callback catches
\* its own fetch error
Fetched(order, failed) == SelectSeq(order, LAMBDA m : m \notin failed)

RECURSIVE FeedAll(_, _, _)
FeedAll(w, order, n) ==
    IF order = <<>> THEN w
    ELSE FeedAll(Feed(w, Fetch(order[1]), order[1], n),
                 SubSeq(order, 2, Len(order)), n)

Orders == {<<"m1", "m2">>, <<"m2", "m1">>}

FieldMissing(obj, name) == "undefined"

\* ${obj.name}: a property the object does not have renders as undefined
Field(obj, name) == IF name \in DOMAIN obj THEN obj[name] ELSE "undefined"

\* the title line of formatAlert
Title(type) ==
    IF type = "VOLUME_SURGE" THEN "High Volume Surge Detected"
    ELSE IF type = "WOLF_PACK" THEN "Wolf Pack Cluster Detected"
    ELSE "Market Alert"

RatioStrInclusive(ratio) ==
    IF ratio.num = NaN THEN [text |-> "NaN"]
    ELSE IF ratio.num >= MaxRatio * ratio.den THEN [text |-> "MAX"]
    ELSE [text |-> "fixed",
          tenths |-> (20 * ratio.num + ratio.den) \div (2 * ratio.den)]

\* alert.ratio > 100 ? "MAX" : alert.ratio.toFixed(1); the decimal string is
\* kept as its number of tenths, the nearest to the ratio
RatioStr(ratio) ==
    IF ratio.num = NaN THEN [text |-> "NaN"]
    ELSE IF ratio.num > MaxRatio * ratio.den THEN [text |-> "MAX"]
    ELSE [text |-> "fixed",
          tenths |-> (20 * ratio.num + ratio.den) \div (2 * ratio.den)]

FormatAlertBySlug(alert) ==
    [title |-> Title(alert.type),
     marketName |-> Field(alert, "marketName"),
     outcome |-> Field(alert, "outcome"),
     volStr |-> alert.totalVol,
     uniqueWallets |-> alert.uniqueWallets,
     ratioStr |-> RatioStr(alert.ratio),
     link |-> <<"https://polymarket.com/market/", Field(alert, "marketSlug")>>]

\* formatAlert: the template string, as the parts it is made of
FormatAlert(alert) ==
    [title |-> Title(alert.type),
     marketName |-> Field(alert, "marketName"),
     outcome |-> Field(alert, "outcome"),
     volStr |-> alert.totalVol,
     uniqueWallets |-> alert.uniqueWallets,
     ratioStr |-> RatioStr(alert.ratio),
     link |-> <<"https://polymarket.com/market/", Field(alert, "marketId")>>]

\* the recipients: the chatId of every document User.find({}) returns
Recipients == SelectSeq(<<"c1", "c2">>, LAMBDA c : c \in DOMAIN db)

\* for (const u of users) bot.sendMessage(u.chatId, html, ...)
SendAll(html, users) == [k \in 1..Len(users) |-> [to |-> users[k], html |-> html]]

\* for (const sig of signals) { html = formatAlert(sig); for (u of users) ... }
RECURSIVE Dispatch(_, _)
Dispatch(sigs, users) ==
    IF sigs = <<>> THEN <<>>
    ELSE SendAll(FormatAlert(sigs[1]), users)
         \o Dispatch(SubSeq(sigs, 2, Len(sigs)), users)

ScanGlobalMarket ==
    /\ now < StartTime + MaxPolls * GlobalScanInterval
    /\ now' = now + GlobalScanInterval
    /\ \E failed \in SUBSET Markets, order \in Orders, found \in BOOLEAN :
          LET w == FeedAll(tradeWindow, Fetched(order, failed), now')
              res == Scan(GroupIds(w), w, alertCooldowns, now')
          IN  /\ tradeWindow' = w
              /\ alertCooldowns' = res.cooldowns
              /\ signals' = res.signals
              /\ checkedAt' = now'
              /\ alertLog' = [m \in Markets |->
                                IF m \in Signalled(res.signals)
                                THEN Append(alertLog[m], now')
                                ELSE alertLog[m]]
              /\ pollFailed' = failed
              \* if (signals.length > 0) { users = await User.find({}); ... }
              \* a rejection goes to the outer catch
              /\ IF res.signals = <<>> THEN found ELSE TRUE
              /\ pollFound' = found
              /\ dispatched' = IF found THEN Dispatch(res.signals, Recipients)
                                ELSE <<>>
    /\ lastOp' = "scanGlobalMarket"
    /\ entry' = [NoEntry EXCEPT !.window = tradeWindow,
                                !.cooldowns = alertCooldowns]
    /\ UNCHANGED feed
    /\ UNCHANGED <<trackerVars, chatVars, auxVars>>

\* the fetch of the hot list fails: the poll ends in its catch
ScanGlobalMarketAborted ==
    /\ now < StartTime + MaxPolls * GlobalScanInterval
    /\ now' = now + GlobalScanInterval
    /\ lastOp' = "scanAborted"
    /\ entry' = NoEntry
    /\ UNCHANGED <<tradeWindow, alertCooldowns, signals, alertLog, checkedAt>>
    /\ UNCHANGED <<pollVars, trackerVars, chatVars, auxVars>>

NextPoll == UpstreamTrade \/ ScanGlobalMarket \/ ScanGlobalMarketAborted

\* a deployment with two registered users and no watched wallet
InitDirectory ==
    /\ InitDetector
    /\ InitPoll
    /\ InitChat
    /\ InitAux
    /\ db = [c \in Chats |-> <<>>]
    /\ latest = <<>>
    /\ scan = [pc |-> "idle"]
    /\ pass = [pc |-> "idle"]
    /\ ended = NoEnd
    /\ walletCheck = NoCheck
    /\ seen = <<>>
    /\ alive = TRUE

SpecPoll == InitDirectory /\ [][NextPoll]_vars

\* the poll over a feed that also carries malformed records
NextMalformed == UpstreamMalformed \/ NextPoll

SpecMalformed == InitDirectory /\ [][NextMalformed]_vars

(***************************************************************************)
(* scanGlobalMarket step by step.  An invocation is suspended at its       *)
(* awaits: the hot-list request, the per-market requests joined by         *)
(* Promise.all, and User.find.  The timer starts an invocation whether or  *)
(* not an earlier one has returned, and the clock moves between the steps. *)
(***************************************************************************)
\* pc, pending and sigs are the invocation's position and locals; at, got
\* and window are history kept of a traced invocation: when each request
\* returned, what it returned, and the window the requests went out with
NoPoll ==
    [pc |-> "idle", pending |-> {}, sigs |-> <<>>, traced |-> FALSE,
     at |-> <<>>, got |-> <<>>, window |-> <<>>]

Traced == [NoPoll EXCEPT !.traced = TRUE]

\* the invocation has returned
Returns(q) == [NoPoll EXCEPT !.traced = q.traced]

\* the clock readings of these scenarios: the start, and the two sides of
\* the retention horizon after it
PollInstants == {StartTime, StartTime + WindowMs - 1, StartTime + WindowMs}

\* a signal for m2 went out CooldownMs - WindowMs before the start; its
\* trade is too old to be retained and is still the latest of its market
EarlierSignal == StartTime - (CooldownMs - WindowMs)

\* await Promise.all(scanPromises): every callback has returned
AllSettled(pending) == pending = {}

\* the detector's state without the history of its last call
detectorState ==
    <<now, tradeWindow, alertCooldowns, signals, alertLog, checkedAt>>

PollElapse ==
    /\ \E n \in PollInstants : n > now /\ now' = n
    /\ lastOp' = "tick"
    /\ entry' = NoEntry
    /\ UNCHANGED <<tradeWindow, alertCooldowns, signals, alertLog, checkedAt>>
    /\ UNCHANGED <<pollVars, trackerVars, chatVars, formatVars, pollProcVars,
                   scansVars, fileVars>>

\* the timer fires: the hot-list request goes out
PollStart ==
    /\ started < MaxStarts
    /\ started' = started + 1
    /\ \E p \in DOMAIN polls :
          /\ polls[p].pc = "idle"
          /\ \A q \in DOMAIN polls : polls[q].pc = "idle" => p <= q
          /\ polls' = [polls EXCEPT ![p] =
                 [Returns(polls[p]) EXCEPT !.pc = "hot"]]
    /\ lastOp' = "pollStart"
    /\ entry' = NoEntry
    /\ UNCHANGED <<detectorState, pollVars, trackerVars, chatVars, formatVars,
                   checker, scansVars, fileVars>>

\* the hot list arrives and the per-market requests go out, or the request
\* fails and the invocation ends in its catch
PollHot ==
    /\ \E p \in DOMAIN polls, ok \in BOOLEAN :
          /\ polls[p].pc = "hot"
          /\ polls' = [polls EXCEPT ![p] =
                 IF ok THEN [@ EXCEPT !.pc = "fetching", !.pending = Markets,
                                      !.window = IF polls[p].traced
                                                 THEN tradeWindow ELSE <<>>]
                 ELSE Returns(@)]
    /\ lastOp' = "pollHot"
    /\ entry' = NoEntry
    /\ UNCHANGED <<detectorState, pollVars, trackerVars, chatVars, formatVars,
                   started, checker, scansVars, fileVars>>

\* one market's request returns: its BUY records go through addTrade, or
\* its failure is swallowed by the callback's catch; when the last one has
\* returned, Promise.all resolves and checkSignals runs
PollFetched ==
    /\ \E p \in DOMAIN polls, ok \in BOOLEAN :
       \E m \in polls[p].pending :
          LET trades == IF ok THEN Fetch(m) ELSE <<>>
              w == Feed(tradeWindow, trades, m, now)
              left == polls[p].pending \ {m}
              q == IF polls[p].traced
                   THEN [polls[p] EXCEPT
                            !.pending = left,
                            !.at = Append(@, now),
                            !.got = [x \in DOMAIN @ \cup {m} |->
                                        IF x = m THEN trades ELSE @[x]]]
                   ELSE [polls[p] EXCEPT !.pending = left]
              res == Scan(GroupIds(w), w, alertCooldowns, now)
          IN  /\ polls[p].pc = "fetching"
              /\ tradeWindow' = w
              /\ IF AllSettled(left)
                 THEN /\ alertCooldowns' = res.cooldowns
                      /\ signals' = res.signals
                      /\ checkedAt' = now
                      /\ alertLog' = [x \in Markets |->
                                        IF x \in Signalled(res.signals)
                                        THEN Append(alertLog[x], now)
                                        ELSE alertLog[x]]
                      /\ entry' = [NoEntry EXCEPT !.window = w,
                                                  !.cooldowns = alertCooldowns]
                      /\ polls' = [polls EXCEPT ![p] =
                             [q EXCEPT !.pc = IF res.signals = <<>>
                                              THEN "idle" ELSE "find",
                                       !.sigs = res.signals]]
                      /\ checker' = IF polls[p].traced THEN p ELSE checker
                      /\ lastOp' = "pollChecked"
                 ELSE /\ polls' = [polls EXCEPT ![p] = q]
                      /\ lastOp' = "pollFetched"
                      /\ entry' = NoEntry
                      /\ UNCHANGED <<alertCooldowns, signals, checkedAt,
                                     alertLog, checker>>
    /\ UNCHANGED <<now, started>>
    /\ UNCHANGED <<pollVars, trackerVars, chatVars, formatVars, scansVars,
                   fileVars>>

\* User.find({}) returns and every signal goes to every user, or it fails
\* and the invocation ends in its catch
PollFound ==
    /\ \E p \in DOMAIN polls, ok \in BOOLEAN :
          /\ polls[p].pc = "find"
          /\ polls' = [polls EXCEPT ![p] = Returns(@)]
          /\ pollFound' = ok
          /\ dispatched' = IF ok THEN Dispatch(polls[p].sigs, Recipients)
                           ELSE <<>>
    /\ lastOp' = "pollFound"
    /\ entry' = NoEntry
    /\ UNCHANGED <<detectorState, feed, pollFailed, trackerVars, chatVars,
                   formatVars, started, checker, scansVars, fileVars>>

\* a purchase happens upstream while invocations are in progress
UpstreamBuy ==
    /\ \E m \in Markets :
          /\ feed[m] # <<>> => feed[m][1].timestamp < now
          /\ Made("m1") + Made("m2") < MaxUpstream
          /\ feed' = [feed EXCEPT ![m] =
                 <<UpstreamRecord(now, "BUY", Given(SurgeMinUSD + 1), "u1")>>
                 \o @]
    /\ lastOp' = "upstream"
    /\ entry' = NoEntry
    /\ UNCHANGED <<detectorState, pollFailed, dispatched, pollFound>>
    /\ UNCHANGED <<trackerVars, chatVars, auxVars>>

NextPollSteps ==
    UpstreamBuy \/ PollElapse \/ PollStart \/ PollHot \/ PollFetched
    \/ PollFound

\* the state the invocations start from: two users, and market m2 in the
\* cooldown of an earlier signal
InitMidCooldown ==
    /\ now = StartTime
    /\ tradeWindow = <<>>
    /\ alertCooldowns = [m \in {"m2"} |-> EarlierSignal]
    /\ signals = <<>>
    /\ lastOp = "new"
    /\ alertLog = [m \in Markets |->
                      IF m = "m2" THEN <<EarlierSignal>> ELSE <<>>]
    /\ checkedAt = NoTime
    /\ entry = NoEntry
    /\ feed = [m \in Markets |->
                  IF m = "m2"
                  THEN <<UpstreamRecord(EarlierSignal, "BUY",
                                        Given(SurgeMinUSD + 1), "u1")>>
                  ELSE <<>>]
    /\ pollFailed = {}
    /\ dispatched = <<>>
    /\ pollFound = TRUE
    /\ InitChat
    /\ NoFormatYet
    /\ NoScanners
    /\ NoFile
    /\ db = [c \in Chats |-> <<>>]
    /\ latest = <<>>
    /\ scan = [pc |-> "idle"]
    /\ pass = [pc |-> "idle"]
    /\ ended = NoEnd
    /\ walletCheck = NoCheck
    /\ seen = <<>>
    /\ alive = TRUE
    /\ started = 0
    /\ checker = 0

\* one invocation at a time
InitOrder == InitMidCooldown /\ polls = [p \in {1} |-> Traced]

SpecOrder == InitOrder /\ [][NextPollSteps]_vars

\* up to two invocations in progress
InitOverlap == InitMidCooldown /\ polls = [p \in {1, 2} |-> NoPoll]

SpecOverlap == InitOverlap /\ [][NextPollSteps]_vars

\* every awaited call of a poll returns or fails: the hot list, each
\* market's trades, the list of users
SpecOrderFair ==
    /\ SpecOrder
    /\ WF_vars(PollHot)
    /\ WF_vars(PollFetched)
    /\ WF_vars(PollFound)

(***************************************************************************)
(* formatAlert, applied to the signals checkSignals builds.  part_000      *)
(* builds its signals with a marketSlug and links to it.                   *)
(***************************************************************************)
RatioNums == {19990, 19999, 20000, 20001, 30000}

RatioDens == {1, 200, 300}

\* signals.push({...}) of part_000
MakeSignalWithSlug(alertType, m, data, buyVol, uniqueBuyers, ratio) ==
    [type |-> alertType, marketName |-> data.meta.marketName,
     outcome |-> data.meta.outcome, totalVol |-> buyVol,
     uniqueWallets |-> uniqueBuyers, ratio |-> ratio, marketId |-> m,
     marketSlug |-> data.meta.marketSlug]

\* the signals of a partition of market m with the given volumes
SignalsOf(m, buyVol, sellVol, alertType) ==
    LET data == [meta |-> Trade(StartTime, m, "Buy", buyVol, "u1")]
        buyers == IF alertType = "WOLF_PACK" THEN MinBuyers ELSE 1
    IN  {[variant |-> "watcher_bot",
          alert |-> MakeSignal(alertType, m, data, buyVol, buyers,
                               Ratio(buyVol, sellVol))],
         [variant |-> "part_000",
          alert |-> MakeSignalWithSlug(alertType, m, data, buyVol, buyers,
                                       Ratio(buyVol, sellVol))]}

FormatInputs ==
    UNION {SignalsOf(m, b, s, t) :
              m \in Markets, b \in RatioNums, s \in RatioDens \cup {0},
              t \in {"WOLF_PACK", "VOLUME_SURGE"}}

\* const html = formatAlert(sig)
Format ==
    /\ fmtOut = NoFormat
    /\ fmtOut' = IF fmtIn.variant = "part_000"
                  THEN FormatAlertBySlug(fmtIn.alert)
                  ELSE FormatAlert(fmtIn.alert)
    /\ lastOp' = "formatAlert"
    /\ UNCHANGED <<fmtIn, detectorFrame, pollVars, trackerVars, chatVars,
                   pollProcVars, scansVars, fileVars>>

InitFormat ==
    /\ InitDetector
    /\ InitPoll
    /\ InitChat
    /\ db = <<>>
    /\ latest = <<>>
    /\ scan = [pc |-> "idle"]
    /\ pass = [pc |-> "idle"]
    /\ ended = NoEnd
    /\ walletCheck = NoCheck
    /\ seen = <<>>
    /\ alive = TRUE
    /\ fmtIn \in FormatInputs
    /\ fmtOut = NoFormat
    /\ NoPollSteps
    /\ NoScanners
    /\ NoFile

SpecFormat == InitFormat /\ [][Format]_vars

(***************************************************************************)
(* The wallet tracker: scanSpecificWallets and the periodic pass (Loop 1). *)
(* A scan runs in steps separated by its awaits: the lookup of the user    *)
(* document, then per wallet the upstream fetch and, when the fingerprint  *)
(* is to be written, the store update.  Every awaited call either          *)
(* resolves or rejects.                                                    *)
(***************************************************************************)
Wallet(a, n, h) == [address |-> a, name |-> n, lastHash |-> h]

\* the upstream records of the model: with an id, without one, not a trade
TradeById == [id |-> "h1", transactionHash |-> "x1", type |-> "TRADE"]
TradeByTx == [id |-> Null, transactionHash |-> "h2", type |-> "TRADE"]
Redeem == [id |-> "h3", transactionHash |-> "x3", type |-> "REDEEM"]

Records == {TradeById, TradeByTx, Redeem}

\* res.data = []
NoActivity == [type |-> "none"]

\* the fetch or the store of a check failed
Failed == [type |-> "error"]

\* no alert by the latest check of a wallet
Unchecked == [type |-> "unchecked"]

\* the stored watchlists the scans start from
Watchlists ==
    {[c1 |-> <<Wallet("a", "w1", Null), Wallet("b", "w2", Null)>>,
      c2 |-> <<Wallet("b", "w3", Null)>>],
     [c1 |-> <<Wallet("a", "w1", Null), Wallet("a", "w2", Null)>>,
      c2 |-> <<>>]}

\* JavaScript truthiness of a string-or-null value
Truthy(v) == v # Null /\ v # ""

\* trade.id || trade.transactionHash
CurrentHash(trade) ==
    IF Truthy(trade.id) THEN trade.id ELSE trade.transactionHash

ChangedIfStored(w, h) == Truthy(w.lastHash)

\* w.lastHash && w.lastHash !== currentHash
Changed(w, h) == Truthy(w.lastHash) /\ w.lastHash # h

IsTrade(trade) == trade.type = "TRADE"

\* User.updateOne({chatId, "wallets.address": a},
\*                {$set: {"wallets.$.lastHash": h}}):
\* the positional operator designates the first element that matches
UpdateOne(d, c, a, h) ==
    IF c \in DOMAIN d /\ \E i \in 1..Len(d[c]) : d[c][i].address = a
    THEN LET k == CHOOSE i \in 1..Len(d[c]) :
                     /\ d[c][i].address = a
                     /\ \A j \in 1..(i - 1) : d[c][j].address # a
         IN  [d EXCEPT ![c][k].lastHash = h]
    ELSE d

\* !user || !user.wallets.length
HasWallets(c) == IF c \in DOMAIN db THEN Len(db[c]) > 0 ELSE FALSE

NoScan == [pc |-> "idle"]

NewScan(c, manual, prelude) ==
    [pc |-> "lookup", chatId |-> c, isManual |-> manual, wallets |-> <<>>,
     i |-> 0, updatesFound |-> FALSE, currentHash |-> Null,
     observed |-> NoActivity, alerts |-> 0, checks |-> {}, failed |-> {},
     sent |-> prelude]

\* bot.sendMessage(chatId, ...) from inside the scan
Say(sc, kind) == [sc EXCEPT !.sent = Append(@, kind)]

Alert(sc) == [Say(sc, "alert") EXCEPT !.updatesFound = TRUE, !.alerts = @ + 1]

NoPass == [pc |-> "idle", users |-> <<>>, k |-> 0, scanned |-> {},
           threw |-> Null]

EndOf(sc, how) ==
    [chatId |-> sc.chatId, isManual |-> sc.isManual, how |-> how,
     count |-> Len(sc.wallets), checks |-> sc.checks, failed |-> sc.failed,
     sent |-> sc.sent]

NextIndexStopOnError(sc, error) ==
    IF error THEN Len(sc.wallets) + 1 ELSE sc.i + 1

\* for (const w of user.wallets): the catch is inside the loop body
NextIndex(sc, error) == sc.i + 1

\* scanSpecificWallets returns; inside a periodic pass the for loop of the
\* timer callback goes on with the next user
Returned(sc) ==
    /\ ended' = EndOf(sc, "returned")
    /\ alive' = alive
    /\ IF pass.pc = "running"
       THEN LET p == [pass EXCEPT !.scanned = @ \cup {sc.chatId}]
            IN  IF p.k < Len(p.users)
                THEN /\ scan' = NewScan(p.users[p.k + 1], FALSE, <<>>)
                     /\ pass' = [p EXCEPT !.k = @ + 1]
                ELSE /\ scan' = NoScan
                     /\ pass' = [p EXCEPT !.pc = "ended"]
       ELSE /\ scan' = NoScan
            /\ pass' = pass

\* the awaited lookup rejects: nothing in scanSpecificWallets, in the timer
\* callback or in the message handler catches it, so the callback ends with
\* it; the unhandled rejection ends the process or not, as the runtime
\* decides
Threw(sc) ==
    /\ ended' = EndOf(sc, "threw")
    /\ scan' = NoScan
    /\ pass' = IF pass.pc = "running"
               THEN [pass EXCEPT !.pc = "ended", !.threw = sc.chatId]
               ELSE pass
    /\ alive' \in BOOLEAN

\* after the loop: if (isManual && !updatesFound) sendMessage("No new ...")
Finish(sc) ==
    Returned(IF sc.isManual /\ ~ sc.updatesFound THEN Say(sc, "noNew") ELSE sc)

\* one wallet's loop body is over
\* history: the record was alerted for and the store of its fingerprint
\* was rejected
Unstored(rec) == [type |-> "unstored", record |-> rec]

CompleteCheck(sc, observed, error) ==
    LET done == [sc EXCEPT !.checks = @ \cup {sc.i},
                           !.failed = IF observed = Failed
                                      THEN @ \cup {sc.i} ELSE @]
        n == NextIndex(sc, error)
    IN  /\ walletCheck' =
               [chatId |-> sc.chatId, i |-> sc.i,
                address |-> sc.wallets[sc.i].address,
                stored |-> sc.wallets[sc.i].lastHash,
                before |-> db[sc.chatId][sc.i].lastHash,
                observed |-> observed, alerts |-> sc.alerts,
                error |-> error, prior |-> seen[<<sc.chatId, sc.i>>]]
        /\ seen' = [seen EXCEPT ![<<sc.chatId, sc.i>>] =
                        IF sc.alerts = 0 THEN Unchecked
                        ELSE IF error THEN Unstored(observed)
                        ELSE observed]
        /\ IF n <= Len(sc.wallets)
           THEN /\ scan' = [done EXCEPT !.pc = "fetch", !.i = n,
                                        !.alerts = 0, !.currentHash = Null,
                                        !.observed = NoActivity]
                /\ UNCHANGED <<pass, ended, alive>>
           ELSE Finish(done)
        /\ lastOp' = "checked"

\* what each address does upstream, oldest first
Stream ==
    [a |-> <<TradeById, TradeByTx, Redeem>>, b |-> <<TradeById, TradeByTx>>]

\* res.data of the activity endpoint (limit: 1, newest first) for address a
Latest(a) == IF latest[a] = 0 THEN NoActivity ELSE Stream[a][latest[a]]

\* the address acts upstream: the endpoint gets a new latest record
Activity ==
    /\ alive
    /\ \E a \in DOMAIN latest :
          /\ latest[a] < Len(Stream[a])
          /\ latest' = [latest EXCEPT ![a] = @ + 1]
    /\ lastOp' = "activity"
    /\ UNCHANGED <<db, scan, pass, ended, walletCheck, seen, alive>>
    /\ UNCHANGED <<detectorFrame, pollVars, chatVars, auxVars>>

\* const user = await User.findOne({chatId})
ScanLookup ==
    /\ alive
    /\ scan.pc = "lookup"
    /\ \E ok \in BOOLEAN :
          IF ~ ok THEN Threw(scan)
          ELSE IF ~ HasWallets(scan.chatId)
          THEN Returned(IF scan.isManual THEN Say(scan, "empty") ELSE scan)
          ELSE /\ scan' = [scan EXCEPT !.pc = "fetch", !.i = 1,
                                       !.wallets = db[scan.chatId]]
               /\ UNCHANGED <<pass, ended, alive>>
    /\ lastOp' = "lookup"
    /\ UNCHANGED <<db, latest, walletCheck, seen>>
    /\ UNCHANGED <<detectorFrame, pollVars, chatVars, auxVars>>

\* what the awaited axios.get gives: a rejection, a response whose data is
\* not a list, or the list holding the latest record of the address
Responses == {"fail", "malformed", "ok"}

\* const res = await axios.get(activity, {user: w.address, limit: 1})
ScanFetch ==
    /\ alive
    /\ scan.pc = "fetch"
    /\ \E r \in Responses :
          LET w == scan.wallets[scan.i]
              trade == Latest(w.address)
          IN  IF r # "ok" THEN CompleteCheck(scan, Failed, TRUE)
              ELSE IF trade = NoActivity
              THEN CompleteCheck(scan, NoActivity, FALSE)
              ELSE IF Changed(w, CurrentHash(trade))
                      \/ ~ Truthy(w.lastHash)
              THEN /\ scan' = [(IF Changed(w, CurrentHash(trade))
                                   /\ IsTrade(trade)
                                THEN Alert(scan) ELSE scan)
                                 EXCEPT !.pc = "store",
                                        !.currentHash = CurrentHash(trade),
                                        !.observed = trade]
                   /\ lastOp' = "fetched"
                   /\ UNCHANGED <<pass, ended, alive, walletCheck, seen>>
              ELSE CompleteCheck(scan, trade, FALSE)
    /\ UNCHANGED <<db, latest>>
    /\ UNCHANGED <<detectorFrame, pollVars, chatVars, auxVars>>

ScanStoreFeedsDetector ==
    /\ alive
    /\ scan.pc = "store"
    /\ \E ok \in BOOLEAN :
          /\ db' = IF ok
                   THEN UpdateOne(db, scan.chatId,
                                  scan.wallets[scan.i].address,
                                  scan.currentHash)
                   ELSE db
          /\ CompleteCheck(scan, scan.observed, ~ ok)
    /\ tradeWindow' = Append(tradeWindow,
                             Trade(now, "m1", "Buy", 1,
                                   scan.wallets[scan.i].address))
    /\ UNCHANGED latest
    /\ UNCHANGED <<now, alertCooldowns, signals, alertLog, checkedAt, entry>>
    /\ UNCHANGED <<pollVars, chatVars, auxVars>>

\* await User.updateOne(...): a rejection lands in the catch of the loop body
ScanStore ==
    /\ alive
    /\ scan.pc = "store"
    /\ \E ok \in BOOLEAN :
          /\ db' = IF ok
                   THEN UpdateOne(db, scan.chatId,
                                  scan.wallets[scan.i].address,
                                  scan.currentHash)
                   ELSE db
          /\ CompleteCheck(scan, scan.observed, ~ ok)
    /\ UNCHANGED latest
    /\ UNCHANGED <<detectorFrame, pollVars, chatVars, auxVars>>

\* the users of a pass, in the order User.find({}) lists the documents
Listed == SelectSeq(<<"c1", "c2">>, LAMBDA c : c \in DOMAIN db)

\* Loop 1: const users = await User.find({}); then one scan per user
PassStart ==
    /\ alive
    /\ scan = NoScan
    /\ pass.pc # "running"
    /\ \E ok \in BOOLEAN :
          IF ok /\ Listed # <<>>
          THEN /\ pass' = [NoPass EXCEPT !.pc = "running", !.users = Listed,
                                         !.k = 1]
               /\ scan' = NewScan(Listed[1], FALSE, <<>>)
               /\ alive' = alive
          ELSE /\ pass' = [NoPass EXCEPT !.pc = "ended",
                                         !.threw = IF ok THEN Null ELSE "find"]
               /\ scan' = NoScan
               /\ IF ok THEN alive' = alive ELSE alive' \in BOOLEAN
    /\ lastOp' = "pass"
    /\ UNCHANGED <<db, latest, ended, walletCheck, seen>>
    /\ UNCHANGED <<detectorFrame, pollVars, chatVars, auxVars>>

\* "Scan My List": sendMessage("Scanning ..."), then
\* await scanSpecificWallets(chatId, true)
ManualScan ==
    /\ alive
    /\ scan = NoScan
    /\ pass.pc # "running"
    /\ \E c \in Chats : scan' = NewScan(c, TRUE, <<"scanning">>)
    /\ lastOp' = "manual"
    /\ UNCHANGED <<db, latest, pass, ended, walletCheck, seen, alive>>
    /\ UNCHANGED <<detectorFrame, pollVars, chatVars, auxVars>>

NextTracker ==
    Activity \/ ScanLookup \/ ScanFetch \/ ScanStore \/ PassStart \/ ManualScan

InitTracker ==
    /\ InitDetector
    /\ InitPoll
    /\ InitChat
    /\ InitAux
    /\ db \in Watchlists
    /\ latest = [a \in DOMAIN Stream |-> 0]
    /\ scan = NoScan
    /\ pass = NoPass
    /\ ended = NoEnd
    /\ walletCheck = NoCheck
    /\ seen = [s \in Slots |-> Unchecked]
    /\ alive = TRUE

SpecTracker == InitTracker /\ [][NextTracker]_vars

\* every awaited call of a scan returns or fails: the lookup, the fetch and
\* the store each end in one of their outcomes
SpecTrackerFair ==
    /\ SpecTracker
    /\ WF_vars(ScanLookup)
    /\ WF_vars(ScanFetch)
    /\ WF_vars(ScanStore)

(***************************************************************************)
(* Scans of one watchlist in progress at the same time.  Nothing in the    *)
(* message handler or in the timer callback waits for a scan in progress:  *)
(* "Scan My List" starts one while a pass of Loop 1 is inside its own, and *)
(* the timer starts a pass while the previous one is still running.  Each  *)
(* scan is suspended at its awaits: User.findOne, axios.get and            *)
(* User.updateOne.                                                         *)
(***************************************************************************)
NoScanner ==
    [pc |-> "idle", isManual |-> FALSE, wallets |-> <<>>, i |-> 0,
     currentHash |-> Null, updatesFound |-> FALSE]

\* the user whose watchlist the scans are of
Owner == "c1"

\* the message handler or the timer calls scanSpecificWallets(chatId, ...)
OverlapStart ==
    /\ scansStarted < MaxScans
    /\ scansStarted' = scansStarted + 1
    /\ \E s \in DOMAIN scanners, manual \in BOOLEAN :
          /\ scanners[s].pc = "idle"
          /\ \A t \in DOMAIN scanners : scanners[t].pc = "idle" => s <= t
          /\ scanners' = [scanners EXCEPT ![s] =
                 [NoScanner EXCEPT !.pc = "lookup", !.isManual = manual]]
    /\ lastOp' = "scanStart"
    /\ UNCHANGED alertsSent
    /\ UNCHANGED <<detectorFrame, pollVars, trackerVars, chatVars,
                   formatVars, pollProcVars, fileVars>>

\* the scan goes on with its next wallet, or returns after the last
OverlapNext(sc) ==
    IF sc.i < Len(sc.wallets)
    THEN [sc EXCEPT !.pc = "fetch", !.i = @ + 1, !.currentHash = Null]
    ELSE NoScanner

\* const user = await User.findOne({chatId}): the scan keeps the document
\* it got
OverlapLookup ==
    /\ \E s \in DOMAIN scanners :
          /\ scanners[s].pc = "lookup"
          /\ scanners' = [scanners EXCEPT ![s] =
                 IF HasWallets(Owner)
                 THEN [@ EXCEPT !.pc = "fetch", !.i = 1,
                                !.wallets = db[Owner]]
                 ELSE NoScanner]
    /\ lastOp' = "scanLookup"
    /\ UNCHANGED alertsSent
    /\ UNCHANGED scansStarted
    /\ UNCHANGED <<detectorFrame, pollVars, trackerVars, chatVars,
                   formatVars, pollProcVars, fileVars>>

\* the latest record of the wallet arrives and is compared with w.lastHash
\* of the scan's own copy of the document; a changed TRADE is alerted for
OverlapFetch ==
    /\ \E s \in DOMAIN scanners, ok \in BOOLEAN :
          LET sc == scanners[s]
              w == sc.wallets[sc.i]
              trade == Latest(w.address)
              hash == CurrentHash(trade)
          IN  /\ sc.pc = "fetch"
              /\ IF ~ ok \/ trade = NoActivity
                 THEN /\ scanners' = [scanners EXCEPT ![s] = OverlapNext(sc)]
                      /\ UNCHANGED alertsSent
                 ELSE IF Changed(w, hash) \/ ~ Truthy(w.lastHash)
                 THEN /\ scanners' = [scanners EXCEPT ![s] =
                             [sc EXCEPT !.pc = "store", !.currentHash = hash,
                                        !.updatesFound =
                                            IF Changed(w, hash)
                                               /\ IsTrade(trade)
                                            THEN TRUE ELSE @]]
                      /\ alertsSent' =
                             IF Changed(w, hash) /\ IsTrade(trade)
                             THEN Append(alertsSent,
                                         [chatId |-> Owner, i |-> sc.i,
                                          from |-> w.lastHash, to |-> hash])
                             ELSE alertsSent
                 ELSE /\ scanners' = [scanners EXCEPT ![s] = OverlapNext(sc)]
                      /\ UNCHANGED alertsSent
    /\ lastOp' = "scanFetched"
    /\ UNCHANGED scansStarted
    /\ UNCHANGED <<detectorFrame, pollVars, trackerVars, chatVars,
                   formatVars, pollProcVars, fileVars>>

\* await User.updateOne(...) returns or rejects
OverlapStore ==
    /\ \E s \in DOMAIN scanners, ok \in BOOLEAN :
          LET sc == scanners[s]
          IN  /\ sc.pc = "store"
              /\ db' = IF ok
                       THEN UpdateOne(db, Owner, sc.wallets[sc.i].address,
                                      sc.currentHash)
                       ELSE db
              /\ scanners' = [scanners EXCEPT ![s] = OverlapNext(sc)]
    /\ lastOp' = "scanStored"
    /\ UNCHANGED <<alertsSent, scansStarted>>
    /\ UNCHANGED <<latest, scan, pass, ended, walletCheck, seen, alive>>
    /\ UNCHANGED <<detectorFrame, pollVars, chatVars,
                   formatVars, pollProcVars, fileVars>>

NextOverlapScans ==
    Activity \/ OverlapStart \/ OverlapLookup \/ OverlapFetch \/ OverlapStore

\* one user watching one wallet whose first record is stored
InitOverlapScans ==
    /\ InitDetector
    /\ InitPoll
    /\ InitChat
    /\ NoFormatYet
    /\ NoPollSteps
    /\ NoFile
    /\ db = [c \in {Owner} |->
                <<Wallet("b", "w2", CurrentHash(Stream["b"][1]))>>]
    /\ latest = [a \in {"b"} |-> 1]
    /\ scan = NoScan
    /\ pass = NoPass
    /\ ended = NoEnd
    /\ walletCheck = NoCheck
    /\ seen = [s \in Slots |-> Unchecked]
    /\ alive = TRUE
    /\ scanners = [s \in {1, 2} |-> NoScanner]
    /\ alertsSent = <<>>
    /\ scansStarted = 0

SpecOverlapScans == InitOverlapScans /\ [][NextOverlapScans]_vars

(***************************************************************************)
(* The two loops of the process side by side: the steps of the wallet      *)
(* tracker interleaved with the polls of the global market.                *)
(***************************************************************************)
\* the user's own scans of the watchlist and the polls of the market
NextBot ==
    Activity \/ ManualScan \/ ScanLookup \/ ScanFetch \/ ScanStore
    \/ ScanGlobalMarket \/ ScanGlobalMarketAborted

\* the instant of the last poll but one
LastPeriod == StartTime + (MaxPolls - 1) * GlobalScanInterval

\* one user watching one wallet, one purchase just made in market m1, and
\* one poll to come
InitBot ==
    /\ now = LastPeriod
    /\ tradeWindow = <<>>
    /\ alertCooldowns = <<>>
    /\ signals = <<>>
    /\ lastOp = "new"
    /\ alertLog = [m \in Markets |-> <<>>]
    /\ checkedAt = NoTime
    /\ entry = NoEntry
    /\ feed = [m \in Markets |->
                  IF m = "m1"
                  THEN <<UpstreamRecord(LastPeriod, "BUY",
                                        Given(SurgeMinUSD + 1), "u1")>>
                  ELSE <<>>]
    /\ pollFailed = {}
    /\ dispatched = <<>>
    /\ pollFound = TRUE
    /\ InitChat
    /\ InitAux
    /\ db = [c \in {"c1"} |-> <<Wallet("b", "w2", Null)>>]
    /\ latest = [a \in {"b"} |-> 0]
    /\ scan = NoScan
    /\ pass = NoPass
    /\ ended = NoEnd
    /\ walletCheck = NoCheck
    /\ seen = [s \in Slots |-> Unchecked]
    /\ alive = TRUE

SpecBot == InitBot /\ [][NextBot]_vars

(***************************************************************************)
(* The message handler of the add-wallet dialogue (bot.on('message')).     *)
(* A text is a sequence of characters.  The handler of one message runs    *)
(* up to its first await; the handlers of later messages run while it is   *)
(* suspended.  The name step has two awaits: User.findOne and user.save.   *)
(***************************************************************************)
AddWalletText == <<"+">>

Texts == {<<"/", "s">>, AddWalletText, <<"a">>, <<" ", "a">>, <<"S">>}

\* text.startsWith('/')
StartsWithSlash(text) == IF Len(text) = 0 THEN FALSE ELSE text[1] = "/"

RECURSIVE TrimStart(_)
TrimStart(text) ==
    IF text = <<>> THEN text
    ELSE IF text[1] = " " THEN TrimStart(SubSeq(text, 2, Len(text)))
    ELSE text

RECURSIVE TrimEnd(_)
TrimEnd(text) ==
    IF text = <<>> THEN text
    ELSE IF text[Len(text)] = " " THEN TrimEnd(SubSeq(text, 1, Len(text) - 1))
    ELSE text

\* text.trim()
Trim(text) == TrimEnd(TrimStart(text))

\* a property that was never assigned
Undefined == <<"undefined">>

\* userState[chatId] = { step: null }
NoState == [step |-> Null, tempAddress |-> Undefined]

Digits == <<"1", "2", "3", "4", "5">>

\* a stored watchlist of n wallets with n different addresses
Filled(n) == [k \in 1..n |-> Wallet(<<"p", Digits[k]>>, <<"n", Digits[k]>>, Null)]

\* User.findOne({chatId}): the wallets of the document, or no document
FindOne(c) == IF c \in DOMAIN db THEN [found |-> TRUE, wallets |-> db[c]]
              ELSE [found |-> FALSE, wallets |-> <<>>]

\* user.wallets.length >= 5
AtLimit(wallets) == Len(wallets) >= MaxWallets

\* user.save() of a document that was found: the pushed wallet is appended
\* to the stored array ($push); of a new document: an insert, which the
\* unique index on chatId rejects if the document exists by now
Save(d, c, isNew, wallet) ==
    IF isNew
    THEN [x \in DOMAIN d \cup {c} |-> IF x = c THEN <<wallet>> ELSE d[x]]
    ELSE [d EXCEPT ![c] = Append(@, wallet)]

SaveRejected(c, isNew) == isNew /\ c \in DOMAIN db

Without(s, k) == SubSeq(s, 1, k - 1) \o SubSeq(s, k + 1, Len(s))

\* the labels of the other menu buttons (lines 317, 325, 331)
MenuTexts == {<<"S">>}

\* the branch of the handler a text takes at a step: the tests of lines
\* 285, 290, 295, 300 and then those of the menu
BranchMenuFirst(text, step) ==
    IF StartsWithSlash(text) THEN "command"
    ELSE IF text = AddWalletText THEN "addWallet"
    ELSE IF text \in MenuTexts THEN "menu"
    ELSE IF step = "WAITING_FOR_ADDRESS" THEN "address"
    ELSE IF step = "WAITING_FOR_NAME" THEN "name"
    ELSE "ignored"

Branch(text, step) ==
    IF StartsWithSlash(text) THEN "command"
    ELSE IF text = AddWalletText THEN "addWallet"
    ELSE IF step = "WAITING_FOR_ADDRESS" THEN "address"
    ELSE IF step = "WAITING_FOR_NAME" THEN "name"
    ELSE IF text \in MenuTexts THEN "menu"
    ELSE "ignored"

\* bot.on('message'), up to the first await
Receive ==
    /\ alive
    /\ received < MaxMessages
    /\ received' = received + 1
    /\ \E c \in Chats, text \in Texts :
          LET st == userState[c]
              did == Branch(text, st.step)
          IN  /\ message' = [chatId |-> c, text |-> text, did |-> did]
              /\ IF did = "addWallet"
                 THEN /\ userState' = [userState EXCEPT
                                          ![c].step = "WAITING_FOR_ADDRESS"]
                      /\ UNCHANGED <<inflight, addressText>>
                 ELSE IF did = "address"
                 THEN /\ userState' = [userState EXCEPT
                                          ![c] = [step |-> "WAITING_FOR_NAME",
                                                  tempAddress |-> Trim(text)]]
                      /\ addressText' = [addressText EXCEPT ![c] = text]
                      /\ UNCHANGED inflight
                 ELSE IF did = "name"
                 THEN /\ Len(inflight) < MaxHandlers
                      /\ inflight' = Append(inflight,
                                        [chatId |-> c, text |-> text,
                                         pc |-> "findOne", isNew |-> FALSE,
                                         wallet |-> Null])
                      /\ UNCHANGED <<userState, addressText>>
                 ELSE UNCHANGED <<userState, inflight, addressText>>
    /\ lastOp' = "message"
    /\ UNCHANGED <<db, nameStep>>
    /\ UNCHANGED <<latest, scan, pass, ended, walletCheck, seen, alive>>
    /\ UNCHANGED <<detectorFrame, pollVars, auxVars>>

\* the name step after await User.findOne: the limit check, the push, and
\* the call of user.save()
NameStepFound ==
    /\ alive
    /\ \E k \in 1..Len(inflight) :
          LET h == inflight[k]
              c == h.chatId
              user == FindOne(c)
          IN  /\ h.pc = "findOne"
              /\ IF AtLimit(user.wallets)
                 THEN /\ inflight' = Without(inflight, k)
                      /\ userState' = [userState EXCEPT ![c] = NoState]
                      /\ nameStep' = [chatId |-> c, event |-> "limit",
                                      stepAt |-> userState[c].step,
                                      addressText |-> addressText[c],
                                      nameText |-> h.text, wallet |-> Null]
                      /\ lastOp' = "nameStepOver"
                 ELSE /\ inflight' = [inflight EXCEPT ![k] =
                            [h EXCEPT !.pc = "save",
                                      !.isNew = ~ user.found,
                                      !.wallet = Wallet(userState[c].tempAddress,
                                                        h.text, Null)]]
                      /\ lastOp' = "nameStepFound"
                      /\ UNCHANGED <<userState, nameStep>>
    /\ UNCHANGED <<db, received, addressText, message>>
    /\ UNCHANGED <<latest, scan, pass, ended, walletCheck, seen, alive>>
    /\ UNCHANGED <<detectorFrame, pollVars, auxVars>>

\* the name step after await user.save(): the confirmation and the reset of
\* userState[chatId]; a rejected save ends the handler before both
NameStepSaved ==
    /\ \E k \in 1..Len(inflight) :
          LET h == inflight[k]
              c == h.chatId
          IN  /\ h.pc = "save"
              /\ inflight' = Without(inflight, k)
              /\ IF SaveRejected(c, h.isNew)
                 THEN /\ alive' \in BOOLEAN
                      /\ nameStep' = [chatId |-> c, event |-> "rejected",
                                      stepAt |-> userState[c].step,
                                      addressText |-> addressText[c],
                                      nameText |-> h.text, wallet |-> Null]
                      /\ lastOp' = "nameStepThrew"
                      /\ UNCHANGED <<db, userState>>
                 ELSE /\ db' = Save(db, c, h.isNew, h.wallet)
                      /\ userState' = [userState EXCEPT ![c] = NoState]
                      /\ nameStep' = [chatId |-> c, event |-> "created",
                                      stepAt |-> userState[c].step,
                                      addressText |-> addressText[c],
                                      nameText |-> h.text, wallet |-> h.wallet]
                      /\ lastOp' = "nameStepOver"
                      /\ alive' = alive
    /\ alive
    /\ UNCHANGED <<received, addressText, message>>
    /\ UNCHANGED <<latest, scan, pass, ended, walletCheck, seen>>
    /\ UNCHANGED <<detectorFrame, pollVars, auxVars>>

NextChat == Receive \/ NameStepFound \/ NameStepSaved

\* the stored watchlists the dialogue starts from: c1 is one wallet short
\* of the limit or at it, c2 has no document yet
InitChatScenario ==
    /\ InitDetector
    /\ InitPoll
    /\ InitChat
    /\ InitAux
    /\ db \in {[c \in {"c1"} |-> Filled(n)] : n \in {MaxWallets - 1, MaxWallets}}
    /\ latest = <<>>
    /\ scan = NoScan
    /\ pass = NoPass
    /\ ended = NoEnd
    /\ walletCheck = NoCheck
    /\ seen = <<>>
    /\ alive = TRUE

SpecChat == InitChatScenario /\ [][NextChat]_vars

(***************************************************************************)
(* The file-backed variant (part_001).  The watchlists of all users are    *)
(* one JSON file: loadDB parses it, saveDB writes it whole.  addWallet and *)
(* removeWallet are synchronous; scanUser is suspended at the fetch of     *)
(* each wallet, and the handlers run meanwhile.                            *)
(***************************************************************************)
\* the addresses typed by the users (tempAddress, already trimmed once)
AddressTexts == {<<"a">>, <<"A">>, <<"b">>}

LowerChar(ch) == IF ch = "A" THEN "a" ELSE IF ch = "B" THEN "b" ELSE ch

\* text.toLowerCase()
ToLowerCase(text) == [k \in 1..Len(text) |-> LowerChar(text[k])]

\* const cleanAddress = address.trim().toLowerCase()
CleanAddress(text) == ToLowerCase(Trim(text))

\* db[chatId] || []
WalletsOf(d, c) == IF c \in DOMAIN d THEN d[c] ELSE <<>>

\* userWallets.find(w => w.address === cleanAddress)
Holds(ws, address) == \E k \in 1..Len(ws) : ws[k].address = address

\* db[chatId] = value
Put(d, c, value) ==
    [x \in DOMAIN d \cup {c} |-> IF x = c THEN value ELSE d[x]]

NoFileScan == [pc |-> "idle"]

NoFileLog == [added |-> {}, removed |-> {}, scans |-> 0, changes |-> 0]

Scanning == fileScan.pc = "fetch"

\* the result of addWallet(chatId, address, name) on the file as it is
AddResult(c, address) ==
    IF Len(WalletsOf(file, c)) >= MaxWallets THEN "LIMIT_REACHED"
    ELSE IF Holds(WalletsOf(file, c), CleanAddress(address)) THEN "DUPLICATE"
    ELSE "SUCCESS"

\* addWallet, called by the name step of the dialogue
FileAddWallet ==
    /\ fileLog.changes < MaxChanges
    /\ \E c \in Chats, address \in AddressTexts :
          LET clean == CleanAddress(address)
              result == AddResult(c, address)
          IN  /\ file' = IF result = "SUCCESS"
                         THEN Put(file, c, Append(WalletsOf(file, c),
                                                  Wallet(clean, "w", Null)))
                         ELSE file
              /\ fileLog' = [fileLog EXCEPT
                     !.changes = @ + 1,
                     !.added = IF Scanning /\ result = "SUCCESS"
                               THEN @ \cup {<<c, clean>>} ELSE @,
                     !.removed = IF Scanning /\ result = "SUCCESS"
                                 THEN @ \ {<<c, clean>>} ELSE @]
              /\ lastOp' = result
    /\ UNCHANGED fileScan
    /\ UNCHANGED <<detectorFrame, pollVars, trackerVars, chatVars,
                   formatVars, pollProcVars, scansVars>>

\* removeWallet, called by the callback of a "Remove" button
FileRemoveWallet ==
    /\ fileLog.changes < MaxChanges
    /\ \E c \in DOMAIN file :
       \E k \in 1..Len(file[c]) :
          LET address == file[c][k].address
          IN  /\ file' = [file EXCEPT ![c] =
                     SelectSeq(@, LAMBDA w : w.address # address)]
              /\ fileLog' = [fileLog EXCEPT
                     !.changes = @ + 1,
                     !.removed = IF Scanning THEN @ \cup {<<c, address>>}
                                 ELSE @,
                     !.added = IF Scanning THEN @ \ {<<c, address>>} ELSE @]
    /\ lastOp' = "removed"
    /\ UNCHANGED fileScan
    /\ UNCHANGED <<detectorFrame, pollVars, trackerVars, chatVars,
                   formatVars, pollProcVars, scansVars>>

\* scanUser up to its first await: loadDB, and the return for a user
\* without wallets
FileScanStart ==
    /\ fileScan.pc = "idle"
    /\ fileLog.scans < MaxScans
    /\ \E c \in Chats, manual \in BOOLEAN :
          fileScan' =
              IF WalletsOf(file, c) = <<>>
              THEN NoFileScan
              ELSE [pc |-> "fetch", chatId |-> c, isManual |-> manual,
                    db |-> file, wallets |-> file[c], i |-> 1,
                    updatedWallets |-> <<>>, updatesFound |-> FALSE]
    /\ fileLog' = [NoFileLog EXCEPT !.scans = fileLog.scans + 1,
                                    !.changes = fileLog.changes]
    /\ lastOp' = "fileScan"
    /\ UNCHANGED file
    /\ UNCHANGED <<detectorFrame, pollVars, trackerVars, chatVars,
                   formatVars, pollProcVars, scansVars>>

\* saveDB(data): the file becomes data
SaveDB(d) == d

\* the fetch of wallet i returns or fails; w.lastHash takes the record's
\* fingerprint, w goes to updatedWallets, and after the last wallet
\* db[chatId] = updatedWallets and saveDB(db) follow at once
FileScanFetch ==
    /\ Scanning
    /\ \E ok \in BOOLEAN, trade \in Records \cup {NoActivity} :
          LET w == fileScan.wallets[fileScan.i]
              found == ok /\ trade # NoActivity
              hash == CurrentHash(trade)
              alert == IF found THEN Changed(w, hash) /\ IsTrade(trade)
                       ELSE FALSE
              after == IF found THEN [w EXCEPT !.lastHash = hash] ELSE w
              updated == Append(fileScan.updatedWallets, after)
          IN  IF fileScan.i < Len(fileScan.wallets)
              THEN /\ fileScan' = [fileScan EXCEPT
                          !.i = @ + 1,
                          !.updatedWallets = updated,
                          !.updatesFound = IF alert THEN TRUE ELSE @]
                   /\ lastOp' = "fileFetched"
                   /\ UNCHANGED file
              ELSE /\ file' = SaveDB(Put(fileScan.db, fileScan.chatId,
                                         updated))
                   /\ fileScan' = NoFileScan
                   /\ lastOp' = "fileSaved"
    /\ UNCHANGED fileLog
    /\ UNCHANGED <<detectorFrame, pollVars, trackerVars, chatVars,
                   formatVars, pollProcVars, scansVars>>

NextFile ==
    FileAddWallet \/ FileRemoveWallet \/ FileScanStart \/ FileScanFetch

\* a file with the watchlist of one user
InitFile ==
    /\ InitDetector
    /\ InitPoll
    /\ InitChat
    /\ NoFormatYet
    /\ NoPollSteps
    /\ NoScanners
    /\ db = <<>>
    /\ latest = <<>>
    /\ scan = NoScan
    /\ pass = NoPass
    /\ ended = NoEnd
    /\ walletCheck = NoCheck
    /\ seen = <<>>
    /\ alive = TRUE
    /\ file = [c \in {"c1"} |-> <<Wallet(<<"a">>, "w", Null)>>]
    /\ fileScan = NoFileScan
    /\ fileLog = NoFileLog

SpecFile == InitFile /\ [][NextFile]_vars

(***************************************************************************)
(* addWallet of the second program of watcher_bot.js (lines 421-438).  The *)
(* name step of its message handler awaits it and resets the dialogue      *)
(* only afterwards, so a call can start while another is at one of its     *)
(* awaits: User.findOne and user.save.                                     *)
(***************************************************************************)
\* the watchlists the calls start from: one wallet, or five, the address a
\* among them; c2 has no document
AddScenarios ==
    {<<Wallet(<<"a">>, <<"n">>, Null)>>,
     Filled(MaxWallets - 1) \o <<Wallet(<<"a">>, <<"n">>, Null)>>}

\* the checks of lines 431-432 on the document the call holds
AddReturn(wallets, clean) ==
    IF Len(wallets) >= MaxWallets THEN "LIMIT_REACHED"
    ELSE IF Holds(wallets, clean) THEN "DUPLICATE"
    ELSE "SUCCESS"

\* addWallet(chatId, address, name) up to await User.findOne
AddWalletCall ==
    /\ received < MaxMessages
    /\ received' = received + 1
    /\ Len(inflight) < MaxHandlers
    /\ \E c \in Chats, address \in AddressTexts :
          inflight' = Append(inflight,
                             [chatId |-> c, pc |-> "findOne",
                              clean |-> CleanAddress(address),
                              isNew |-> FALSE, found |-> <<>>])
    /\ lastOp' = "addWallet"
    /\ UNCHANGED <<db, userState, addressText, message, nameStep>>
    /\ UNCHANGED <<latest, scan, pass, ended, walletCheck, seen, alive>>
    /\ UNCHANGED <<detectorFrame, pollVars, auxVars>>

\* the document arrives: the two checks, then the push and the call of
\* user.save()
AddWalletFound ==
    /\ \E k \in 1..Len(inflight) :
          LET h == inflight[k]
              user == FindOne(h.chatId)
              result == AddReturn(user.wallets, h.clean)
          IN  /\ h.pc = "findOne"
              /\ IF result = "SUCCESS"
                 THEN /\ inflight' = [inflight EXCEPT ![k] =
                             [h EXCEPT !.pc = "save", !.isNew = ~ user.found,
                                       !.found = user.wallets]]
                      /\ lastOp' = "addFound"
                      /\ UNCHANGED nameStep
                 ELSE /\ inflight' = Without(inflight, k)
                      /\ nameStep' = [chatId |-> h.chatId, event |-> result,
                                      clean |-> h.clean,
                                      found |-> user.wallets]
                      /\ lastOp' = "addReturned"
    /\ UNCHANGED <<db, userState, received, addressText, message>>
    /\ UNCHANGED <<latest, scan, pass, ended, walletCheck, seen, alive>>
    /\ UNCHANGED <<detectorFrame, pollVars, auxVars>>

\* user.save() returns, or rejects for a new document whose chatId is
\* stored by now
AddWalletSaved ==
    /\ \E k \in 1..Len(inflight) :
          LET h == inflight[k]
              c == h.chatId
          IN  /\ h.pc = "save"
              /\ inflight' = Without(inflight, k)
              /\ IF SaveRejected(c, h.isNew)
                 THEN /\ nameStep' = [chatId |-> c, event |-> "rejected",
                                      clean |-> h.clean, found |-> h.found]
                      /\ lastOp' = "addThrew"
                      /\ UNCHANGED db
                 ELSE /\ db' = Save(db, c, h.isNew,
                                    Wallet(h.clean, <<"n">>, Null))
                      /\ nameStep' = [chatId |-> c, event |-> "SUCCESS",
                                      clean |-> h.clean, found |-> h.found]
                      /\ lastOp' = "addReturned"
    /\ UNCHANGED <<userState, received, addressText, message>>
    /\ UNCHANGED <<latest, scan, pass, ended, walletCheck, seen, alive>>
    /\ UNCHANGED <<detectorFrame, pollVars, auxVars>>

NextAdd == AddWalletCall \/ AddWalletFound \/ AddWalletSaved

InitAdd ==
    /\ InitDetector
    /\ InitPoll
    /\ InitChat
    /\ InitAux
    /\ db \in {[c \in {"c1"} |-> ws] : ws \in AddScenarios}
    /\ latest = <<>>
    /\ scan = NoScan
    /\ pass = NoPass
    /\ ended = NoEnd
    /\ walletCheck = NoCheck
    /\ seen = <<>>
    /\ alive = TRUE

SpecAdd == InitAdd /\ [][NextAdd]_vars

(***************************************************************************)
(* Deleting a wallet: the callback_query handlers of watcher_bot.js.  The  *)
(* first program pulls the address from the stored array in one store      *)
(* operation (line 347); the second calls removeWallet (lines 440-446),    *)
(* which loads the document, filters its copy and saves it.  A scan stores *)
(* fingerprints meanwhile (lines 146-149, 448-453).                        *)
(***************************************************************************)
DeleteAddresses == {"a", "b", "z"}

DeleteScenarios ==
    {[c1 |-> <<Wallet("a", "w1", "h1"), Wallet("b", "w2", "h1"),
               Wallet("a", "w3", Null)>>,
      c2 |-> <<Wallet("a", "w4", "h1")>>]}

\* wallets.filter(w => w.address !== address)
FilterOut(wallets, address) ==
    SelectSeq(wallets, LAMBDA w : w.address # address)

\* {$pull: {wallets: {address}}} on the document of chat c
Pull(d, c, address) ==
    IF c \in DOMAIN d THEN [d EXCEPT ![c] = FilterOut(@, address)] ELSE d

\* the callback of lines 345-351
PullWallet ==
    /\ received < MaxMessages
    /\ received' = received + 1
    /\ \E c \in Chats, address \in DeleteAddresses :
          /\ db' = Pull(db, c, address)
          /\ nameStep' = [chatId |-> c, event |-> "deleted",
                          address |-> address]
    /\ lastOp' = "deleted"
    /\ UNCHANGED <<userState, inflight, addressText, message>>
    /\ UNCHANGED <<latest, scan, pass, ended, walletCheck, seen, alive>>
    /\ UNCHANGED <<detectorFrame, pollVars, auxVars>>

\* removeWallet(chatId, address) up to await User.findOne; one call at a
\* time, a save of the array that races another save of it being refused
\* by the version of the document
RemoveWalletCall ==
    /\ received < MaxMessages
    /\ received' = received + 1
    /\ inflight = <<>>
    /\ \E c \in Chats, address \in DeleteAddresses :
          inflight' = Append(inflight,
                             [chatId |-> c, pc |-> "findOne",
                              address |-> address, found |-> <<>>,
                              wallets |-> <<>>])
    /\ lastOp' = "removeWallet"
    /\ UNCHANGED <<db, userState, addressText, message, nameStep>>
    /\ UNCHANGED <<latest, scan, pass, ended, walletCheck, seen, alive>>
    /\ UNCHANGED <<detectorFrame, pollVars, auxVars>>

\* the document arrives: the copy is filtered and user.save() called;
\* without a document the call returns
RemoveWalletFound ==
    /\ \E k \in 1..Len(inflight) :
          LET h == inflight[k]
              user == FindOne(h.chatId)
          IN  /\ h.pc = "findOne"
              /\ IF user.found
                 THEN /\ inflight' = [inflight EXCEPT ![k] =
                             [h EXCEPT !.pc = "save",
                                       !.found = user.wallets,
                                       !.wallets =
                                           FilterOut(user.wallets, h.address)]]
                      /\ lastOp' = "removeFound"
                      /\ UNCHANGED nameStep
                 ELSE /\ inflight' = Without(inflight, k)
                      /\ nameStep' = [chatId |-> h.chatId,
                                      event |-> "deleted",
                                      address |-> h.address]
                      /\ lastOp' = "deleted"
    /\ UNCHANGED <<db, userState, received, addressText, message>>
    /\ UNCHANGED <<latest, scan, pass, ended, walletCheck, seen, alive>>
    /\ UNCHANGED <<detectorFrame, pollVars, auxVars>>

\* user.save() writes the wallets of the copy when the filter changed them
RemoveWalletSaved ==
    /\ \E k \in 1..Len(inflight) :
          LET h == inflight[k]
          IN  /\ h.pc = "save"
              /\ inflight' = Without(inflight, k)
              /\ db' = IF h.wallets = h.found THEN db
                       ELSE [db EXCEPT ![h.chatId] = h.wallets]
              /\ nameStep' = [chatId |-> h.chatId, event |-> "deleted",
                              address |-> h.address]
    /\ lastOp' = "deleted"
    /\ UNCHANGED <<userState, received, addressText, message>>
    /\ UNCHANGED <<latest, scan, pass, ended, walletCheck, seen, alive>>
    /\ UNCHANGED <<detectorFrame, pollVars, auxVars>>

\* a scan stores the fingerprint of the record it saw
UpdateWalletHash ==
    /\ \E c \in DOMAIN db, address \in DeleteAddresses :
       \E record \in {TradeById, TradeByTx} :
          /\ db' = UpdateOne(db, c, address, CurrentHash(record))
          /\ db' # db
    /\ lastOp' = "updateWalletHash"
    /\ UNCHANGED <<userState, inflight, received, addressText, message, nameStep>>
    /\ UNCHANGED <<latest, scan, pass, ended, walletCheck, seen, alive>>
    /\ UNCHANGED <<detectorFrame, pollVars, auxVars>>

NextPull == PullWallet \/ UpdateWalletHash

NextDelete ==
    \/ RemoveWalletCall
    \/ RemoveWalletFound
    \/ RemoveWalletSaved
    \/ UpdateWalletHash

InitDelete ==
    /\ InitDetector
    /\ InitPoll
    /\ InitChat
    /\ InitAux
    /\ db \in DeleteScenarios
    /\ latest = <<>>
    /\ scan = NoScan
    /\ pass = NoPass
    /\ ended = NoEnd
    /\ walletCheck = NoCheck
    /\ seen = <<>>
    /\ alive = TRUE

SpecPull == InitDelete /\ [][NextPull]_vars

SpecDelete == InitDelete /\ [][NextDelete]_vars

(***************************************************************************)
(* What the claims speak of, computed from the window as it stands.        *)
(* checkSignals leaves the window and the clock alone, so right after a    *)
(* call they are the window and the clock the call read.                   *)
(***************************************************************************)
Age(t) == now - t.timestamp

OfMarket(m) == {i \in 1..Len(tradeWindow) : tradeWindow[i].marketId = m}

BuysOf(m) == {i \in OfMarket(m) : tradeWindow[i].side = "Buy"}

SellsOf(m) == {i \in OfMarket(m) : tradeWindow[i].side = "Sell"}

RECURSIVE AmountOver(_)
AmountOver(idx) ==
    IF idx = {} THEN 0
    ELSE LET i == CHOOSE j \in idx : TRUE
         IN  tradeWindow[i].amountUSD + AmountOver(idx \ {i})

BuyVolOf(m) == AmountOver(BuysOf(m))

SellVolOf(m) == AmountOver(SellsOf(m))

BuyersOf(m) == {tradeWindow[i].user : i \in BuysOf(m)}

Checked == lastOp = "checkSignals"

Added == lastOp = "addTrade"

\* the partition of m exists and no cooldown held it back at the call
Evaluated(m) ==
    /\ OfMarket(m) # {}
    /\ ~ (m \in DOMAIN entry.cooldowns
          /\ now - entry.cooldowns[m] < CooldownMs)

PassesRatio(m) == SellVolOf(m) = 0 \/ BuyVolOf(m) >= 3 * SellVolOf(m)

WolfCase(m) == Cardinality(BuyersOf(m)) >= 3 /\ BuyVolOf(m) > 10000

SurgeCase(m) == ~ WolfCase(m) /\ BuyVolOf(m) > 15000

HasSignal(m, type) ==
    \E i \in 1..Len(signals) :
        signals[i].marketId = m /\ signals[i].type = type

\* C1: right after every addTrade, every retained trade satisfies
\* now - timestamp <= 60000.
C1_RetainedWithinHorizon ==
    Added => \A i \in 1..Len(tradeWindow) : Age(tradeWindow[i]) <= 60000

\* an addTrade that found a stale trade and dropped it, keeping a fresh one
C1_Witness ==
    /\ Added
    /\ \E i \in 1..Len(entry.window) : Age(entry.window[i]) > 60000
    /\ Len(tradeWindow) >= 1

\* C2: for a partition that is not in cooldown and passes the ratio filter,
\* checkSignals emits WOLF_PACK if and only if uniqueBuyers >= 3 and
\* buyVol > 10000; such a partition is never reported as VOLUME_SURGE.
C2_WolfPackIff ==
    Checked =>
        \A m \in Markets :
            Evaluated(m) /\ PassesRatio(m) =>
                /\ HasSignal(m, "WOLF_PACK") <=> WolfCase(m)
                /\ WolfCase(m) => ~ HasSignal(m, "VOLUME_SURGE")

\* three buyers, buyVol one above the cluster threshold, and at another call
\* site the same with more than the surge threshold
C2_Witness ==
    /\ Checked
    /\ Evaluated("m1")
    /\ Cardinality(BuyersOf("m1")) = 3
    /\ BuyVolOf("m1") = 10001
    /\ HasSignal("m1", "WOLF_PACK")

\* C3: for a partition that is not in cooldown and passes the ratio filter,
\* checkSignals emits VOLUME_SURGE if and only if the WOLF_PACK condition
\* fails and buyVol > 15000; when neither holds no signal is emitted for it.
C3_VolumeSurgeIff ==
    Checked =>
        \A m \in Markets :
            Evaluated(m) /\ PassesRatio(m) =>
                /\ HasSignal(m, "VOLUME_SURGE") <=> SurgeCase(m)
                /\ ~ WolfCase(m) /\ ~ SurgeCase(m) => m \notin Signalled(signals)

\* one buyer, 15001 bought, nothing sold
C3_Witness ==
    /\ Checked
    /\ Evaluated("m1")
    /\ Cardinality(BuyersOf("m1")) = 1
    /\ BuyVolOf("m1") = 15001
    /\ SellVolOf("m1") = 0
    /\ HasSignal("m1", "VOLUME_SURGE")

\* C4: a partition with sellVol > 0 and buyVol / sellVol < 3 yields no signal
\* and leaves its cooldown entry as it was; one with ratio exactly 3 or more,
\* or with sellVol = 0, is classified by the thresholds.
C4_RatioFilter ==
    Checked =>
        \A m \in Markets :
            Evaluated(m) =>
                /\ SellVolOf(m) > 0 /\ BuyVolOf(m) < 3 * SellVolOf(m) =>
                      /\ m \notin Signalled(signals)
                      /\ (m \in DOMAIN alertCooldowns) =
                             (m \in DOMAIN entry.cooldowns)
                      /\ m \in DOMAIN alertCooldowns =>
                             alertCooldowns[m] = entry.cooldowns[m]
                /\ SellVolOf(m) = 0 \/ BuyVolOf(m) >= 3 * SellVolOf(m) =>
                      (m \in Signalled(signals) <=> WolfCase(m) \/ SurgeCase(m))

\* ratio exactly 3.0, and a signal
C4_Witness ==
    /\ Checked
    /\ Evaluated("m1")
    /\ SellVolOf("m1") > 0
    /\ BuyVolOf("m1") = 3 * SellVolOf("m1")
    /\ "m1" \in Signalled(signals)

\* the signals of a market before the latest checkSignals call
PriorLog(m) ==
    IF Checked /\ m \in Signalled(signals)
    THEN SubSeq(alertLog[m], 1, Len(alertLog[m]) - 1)
    ELSE alertLog[m]

Qualifies(m) ==
    /\ OfMarket(m) # {}
    /\ PassesRatio(m)
    /\ WolfCase(m) \/ SurgeCase(m)

\* C5: two signals of one market are never less than 300000 ms apart, and a
\* call made 300000 ms or more after the market's latest signal, with a
\* qualifying partition for it, emits one.
C5_Cooldown ==
    /\ \A m \in Markets :
          \A i \in 1..(Len(alertLog[m]) - 1) :
              alertLog[m][i + 1] - alertLog[m][i] >= 300000
    /\ Checked =>
          \A m \in Markets :
              /\ PriorLog(m) # <<>>
              /\ now - PriorLog(m)[Len(PriorLog(m))] >= 300000
              /\ Qualifies(m)
              => m \in Signalled(signals)

\* a second signal for a market, exactly 300000 ms after its first
C5_Witness ==
    /\ Checked
    /\ \E m \in Signalled(signals) :
          /\ Len(alertLog[m]) = 2
          /\ alertLog[m][2] - alertLog[m][1] = 300000

\* checkSignals called again, no addTrade since the call before, less than
\* 300000 ms after it
Repeated ==
    /\ Checked
    /\ entry.checkedAt # NoTime
    /\ now - entry.checkedAt < 300000

\* C6 as stated: the second of two such calls returns no signal.
C6_Original == Repeated => signals = <<>>

\* every cooldown that held at the call before still holds at this one
NoCooldownExpired ==
    \A m \in DOMAIN entry.cooldowns :
        entry.checkedAt - entry.cooldowns[m] < 300000 =>
            now - entry.cooldowns[m] < 300000

\* C6: the second of two checkSignals calls with no addTrade in between and
\* less than 300000 ms apart returns no signal, provided no cooldown that
\* was active at the first call has expired by the second.
C6_RepeatIsEmpty == Repeated /\ NoCooldownExpired => signals = <<>>

\* the call before classified a market, time has passed, nothing is emitted
C6_Witness ==
    /\ Repeated
    /\ NoCooldownExpired
    /\ now > entry.checkedAt
    /\ \E m \in DOMAIN entry.cooldowns :
          /\ entry.cooldowns[m] = entry.checkedAt
          /\ OfMarket(m) # {}

\* C7: a market is a key of alertCooldowns exactly when a signal has been
\* emitted for it, and its value is the clock time of its latest signal.
C7_CooldownsAreLatestSignals ==
    /\ DOMAIN alertCooldowns = {m \in Markets : alertLog[m] # <<>>}
    /\ \A m \in DOMAIN alertCooldowns :
          alertCooldowns[m] = alertLog[m][Len(alertLog[m])]

\* both markets stamped, one of them for the second time
C7_Witness ==
    /\ DOMAIN alertCooldowns = Markets
    /\ \E m \in Markets : Len(alertLog[m]) = 2

\* C8 as stated: every trade checkSignals groups is at most 60 seconds old
\* at that call.
C8_Original ==
    Checked => \A i \in 1..Len(tradeWindow) : Age(tradeWindow[i]) <= 60000

\* C9 as stated: addTrade leaves the previous window with the trade
\* appended, minus exactly the trades with now - timestamp > 60000, in order.
C9_Original ==
    Added =>
        tradeWindow = SelectSeq(entry.window, LAMBDA t : ~ (Age(t) > 60000))

\* C10: every returned Signal carries the sum of the buy-side amounts of its
\* market as totalVol, the number of distinct buyers as uniqueWallets, and
\* buyVol (sellVol = 0) or buyVol / sellVol as ratio.
C10_SignalFigures ==
    Checked =>
        \A i \in 1..Len(signals) :
            LET s == signals[i]
                m == s.marketId
            IN  /\ s.totalVol = BuyVolOf(m)
                /\ s.uniqueWallets = Cardinality(BuyersOf(m))
                /\ SellVolOf(m) = 0 => s.ratio.num = BuyVolOf(m) * s.ratio.den
                /\ SellVolOf(m) > 0 =>
                      s.ratio.num * SellVolOf(m) = BuyVolOf(m) * s.ratio.den

\* a signal for a market with a sell in the window, by a wallet that bought
\* nothing
C10_Witness ==
    /\ Checked
    /\ \E i \in 1..Len(signals) :
          LET m == signals[i].marketId
          IN  /\ SellVolOf(m) > 0
              /\ \E j \in SellsOf(m) : tradeWindow[j].user \notin BuyersOf(m)

Polled == lastOp = "scanGlobalMarket"

Copies(w, t) == Cardinality({i \in 1..Len(w) : w[i] = t})

\* C11 as stated: the window holds an upstream trade at most once.  (The
\* trades of the feed differ pairwise, so do the objects made of them.)
C11_Original ==
    \A i, j \in 1..Len(tradeWindow) :
        i # j => tradeWindow[i] # tradeWindow[j]

FreshBuys(m) ==
    {i \in 1..Len(Fetch(m)) :
        /\ Fetch(m)[i].side = "BUY"
        /\ now - Fetch(m)[i].timestamp < 60000}

\* C16: after a poll in which the fetch of some markets failed, every
\* trade the other markets' fetches returned (bought, within the horizon)
\* has been added once more to the window, no trade of a failed market has
\* been added, and checkSignals has run at the clock of the poll.
C16_FailedFetchIsolated ==
    Polled =>
        /\ checkedAt = now
        /\ \A m \in Markets \ pollFailed : \A i \in FreshBuys(m) :
              LET t == Ingest(Fetch(m)[i], m)
              IN  Copies(tradeWindow, t) = Copies(entry.window, t) + 1
        /\ \A m \in pollFailed : \A i \in 1..Len(tradeWindow) :
              tradeWindow[i].marketId = m =>
                  Copies(tradeWindow, tradeWindow[i])
                      = Copies(entry.window, tradeWindow[i])

\* one fetch failed, the other market's trade went in and raised a signal
C16_Witness ==
    /\ Polled
    /\ pollFailed = {"m1"}
    /\ FreshBuys("m1") # {}
    /\ FreshBuys("m2") # {}
    /\ "m2" \in Signalled(signals)
    /\ \A i \in 1..Len(tradeWindow) : tradeWindow[i].marketId = "m2"

(***************************************************************************)
(* The wallet tracker.                                                     *)
(***************************************************************************)
WalletChecked == lastOp = "checked"

\* a check that ran to the end of the loop body with no fetch or store error
CleanCheck == WalletChecked /\ ~ walletCheck.error

\* the check observed an upstream record
Observed == walletCheck.observed \in Records

\* the fingerprint of a record: its id, or its transaction hash without one
Fingerprint(rec) == IF rec.id = Null THEN rec.transactionHash ELSE rec.id

\* the fingerprint now stored for the wallet just checked
StoredNow == db[walletCheck.chatId][walletCheck.i].lastHash

\* C12 as stated: a check that finds a null stored fingerprint and an
\* upstream record stores the record's fingerprint for that wallet and sends
\* nothing; a check that finds the stored fingerprint equal to the record's
\* sends nothing and leaves it as it was.
C12_Original ==
    CleanCheck /\ Observed =>
       /\ walletCheck.stored = Null =>
              /\ StoredNow = Fingerprint(walletCheck.observed)
              /\ walletCheck.alerts = 0
       /\ walletCheck.stored = Fingerprint(walletCheck.observed) =>
              /\ StoredNow = walletCheck.stored
              /\ walletCheck.alerts = 0

\* the check found a stored fingerprint other than the record's
FoundChange ==
    /\ Observed
    /\ walletCheck.stored # Null
    /\ walletCheck.stored # Fingerprint(walletCheck.observed)

\* the check observed the very record its wallet's previous check alerted for
FollowsAlert == Observed /\ walletCheck.prior = walletCheck.observed

\* C13: a check, free of errors, that finds a non-null stored fingerprint
\* other than that of the upstream record, the record being a TRADE, sends
\* exactly one alert to the owner and leaves the record's fingerprint
\* stored; the next check of that wallet, if it sees the same record, sends
\* nothing.
C13_AlertOnceThenQuiet ==
    /\ CleanCheck /\ FoundChange /\ walletCheck.observed.type = "TRADE" =>
           /\ walletCheck.alerts = 1
           /\ StoredNow = Fingerprint(walletCheck.observed)
    /\ CleanCheck /\ FollowsAlert => walletCheck.alerts = 0

C13_Witness == CleanCheck /\ FollowsAlert /\ walletCheck.alerts = 0

\* C14 as stated: after every error-free check that observed a record the
\* wallet's stored fingerprint is the record's, TRADE or not; a changed
\* record that is not a TRADE sends nothing.
C14_Original ==
    CleanCheck /\ Observed =>
       /\ StoredNow = Fingerprint(walletCheck.observed)
       /\ FoundChange /\ walletCheck.observed.type # "TRADE" =>
              walletCheck.alerts = 0

\* C15: a wallet whose fetch failed or gave a malformed response gets no
\* message and keeps its stored fingerprint, the scan goes on with the next
\* wallet of the list, and a scan that returns has checked every wallet
\* after a failed one.
C15_FetchFailureIsolated ==
    /\ WalletChecked /\ walletCheck.observed = Failed =>
           /\ walletCheck.alerts = 0
           /\ StoredNow = walletCheck.before
           /\ walletCheck.i < Len(db[walletCheck.chatId]) =>
                  /\ scan.pc = "fetch"
                  /\ scan.chatId = walletCheck.chatId
                  /\ scan.i = walletCheck.i + 1
    /\ ended.how = "returned" =>
           \A i \in ended.failed : \A j \in (i + 1)..ended.count :
               j \in ended.checks

C15_Witness ==
    /\ ended.how = "returned"
    /\ ended.count = 2
    /\ 1 \in ended.failed
    /\ 2 \in ended.checks \ ended.failed

\* C17 as stated: when a periodic pass is over, every listed user other
\* than the one whose lookup failed has been scanned.
C17_Original ==
    pass.pc = "ended" =>
        \A k \in 1..Len(pass.users) :
            pass.users[k] # pass.threw => pass.users[k] \in pass.scanned

\* the acknowledgements among the messages of a scan: an alert, "no new
\* trades" or "watchlist is empty"
Acks(sent) ==
    Cardinality({k \in 1..Len(sent) : sent[k] \in {"alert", "noNew", "empty"}})

\* C18 as stated: a manual scan that is over has sent exactly one
\* acknowledgement.
C18_Original ==
    ended.how # "none" /\ ended.isManual => Acks(ended.sent) = 1

(***************************************************************************)
(* The add-wallet dialogue.                                                *)
(***************************************************************************)
\* C19 as stated: no watchlist holds more than 5 wallets.
C19_Original == \A c \in DOMAIN db : Len(db[c]) <= 5

\* C20 as stated: a wallet is created only by a name step that ends with
\* the chat going from the name step to idle, its address is the trimmed
\* text the chat sent in the address step and its name the text of the name
\* step; when a name step is over the chat is idle.
C20_Original ==
    /\ nameStep.event = "created" =>
           /\ nameStep.stepAt = "WAITING_FOR_NAME"
           /\ nameStep.wallet.address = Trim(nameStep.addressText)
           /\ nameStep.wallet.name = nameStep.nameText
    /\ lastOp = "nameStepOver" => userState[nameStep.chatId].step = Null

(***************************************************************************)
(* Dispatch and formatting of signals.                                     *)
(***************************************************************************)
\* the messages of the latest poll that carry signal sig to chat c
Carrying(sig, c) ==
    {k \in 1..Len(dispatched) :
        dispatched[k].to = c /\ dispatched[k].html = FormatAlert(sig)}

\* C21 as stated: every signal that checkSignals returned inside a poll has
\* been sent, formatted, exactly once to every user of the directory.
C21_Original ==
    Polled =>
        \A i \in 1..Len(signals) : \A c \in DOMAIN db :
            Cardinality(Carrying(signals[i], c)) = 1

Formatted == lastOp = "formatAlert"

\* C25: the text formatAlert returns carries the signal's market name, its
\* outcome and one link whose path is the signal's market slug in part_000
\* and its market identifier in watcher_bot.js, never an undefined field.
C25_FormatCarriesSignal ==
    Formatted =>
       /\ fmtOut.marketName = fmtIn.alert.marketName
       /\ fmtOut.outcome = fmtIn.alert.outcome
       /\ fmtOut.link[2] = IF fmtIn.variant = "part_000"
                            THEN fmtIn.alert.marketSlug
                            ELSE fmtIn.alert.marketId
       /\ fmtOut.link[2] # "undefined"

C25_Witness ==
    /\ Formatted
    /\ fmtIn.variant = "watcher_bot"
    /\ fmtOut.link[2] = fmtIn.alert.marketId

\* twice the distance between the ratio and the rendered number of tenths,
\* in units of 1 / (10 * den)
TwiceOff(ratio, tenths) ==
    LET d == 10 * ratio.num - tenths * ratio.den
    IN  IF d < 0 THEN 0 - 2 * d ELSE 2 * d

\* C26: the ratio is rendered as MAX exactly when it is above 100, and
\* otherwise with one decimal place, the nearest to it; 100 is rendered as
\* 100.0.
C26_RatioRendering ==
    Formatted =>
        LET r == fmtIn.alert.ratio
            str == fmtOut.ratioStr
        IN  /\ str.text = "MAX" <=> r.num > 100 * r.den
            /\ str.text # "MAX" =>
                   /\ str.text = "fixed"
                   /\ TwiceOff(r, str.tenths) <= r.den
            /\ r.num = 100 * r.den => str.text = "fixed" /\ str.tenths = 1000

C26_Witness ==
    /\ Formatted
    /\ fmtIn.alert.ratio.num = 100 * fmtIn.alert.ratio.den
    /\ fmtOut.ratioStr = [text |-> "fixed", tenths |-> 1000]

(***************************************************************************)
(* Malformed trade records.                                                *)
(***************************************************************************)
\* the retained buys of market m whose amount is a number
WellFormedBuys(m) == {i \in BuysOf(m) : tradeWindow[i].amountUSD # NaN}

\* C23 as stated: a record without a size counts as zero, so a market that
\* is not in cooldown, has no sells and whose other retained buys add up to
\* more than 15000 is still signalled by the poll.
C23_Original ==
    Polled =>
        \A m \in Markets :
            /\ ~ InCooldown(entry.cooldowns, m, now)
            /\ SellsOf(m) = {}
            /\ AmountOver(WellFormedBuys(m)) > 15000
            => m \in Signalled(signals)

(***************************************************************************)
(* The join of the per-market requests.                                    *)
(***************************************************************************)
PollChecked == lastOp = "pollChecked"

\* what the claim compares of the signals
SignalSet(sigs) ==
    {[type |-> sigs[i].type, market |-> sigs[i].marketId,
      totalVol |-> sigs[i].totalVol,
      uniqueWallets |-> sigs[i].uniqueWallets, ratio |-> sigs[i].ratio]
        : i \in 1..Len(sigs)}

\* the window after the requests of invocation q returned in order o, the
\* i-th return at the instant the i-th return of q happened
RECURSIVE ReturnedIn(_, _, _, _)
ReturnedIn(w, o, i, q) ==
    IF i > Len(o) THEN w
    ELSE ReturnedIn(Feed(w, q.got[o[i]], o[i], q.at[i]), o, i + 1, q)

\* the signals of invocation q had its requests returned in order o
SignalsIn(o, q) ==
    LET w == ReturnedIn(q.window, o, 1, q)
    IN  Scan(GroupIds(w), w, entry.cooldowns, checkedAt).signals

\* C22 as stated: checkSignals runs when no per-market request of the
\* invocation is outstanding, and the set of its signals is the one every
\* order of return of the same responses gives.
C22_Original ==
    PollChecked =>
        LET q == polls[checker]
        IN  /\ q.pending = {}
            /\ \A o \in Orders : SignalSet(SignalsIn(o, q)) = SignalSet(signals)

(***************************************************************************)
(* Overlapping invocations of scanGlobalMarket.                            *)
(***************************************************************************)
\* C27: whatever the interleaving of the invocations in progress, two
\* signals of one market are at least 300000 ms apart: consecutive signal
\* instants of every market differ by the cooldown or more.
C27_CooldownAcrossInvocations ==
    \A m \in Markets :
        \A i \in 1..(Len(alertLog[m]) - 1) :
            alertLog[m][i + 1] - alertLog[m][i] >= CooldownMs

\* an invocation finds a market over the threshold that another invocation,
\* still at its User.find, has signalled at the same instant for the second
\* time, and stays silent
C27_Witness ==
    /\ PollChecked
    /\ signals = <<>>
    /\ \E p \in DOMAIN polls, m \in Markets :
          /\ polls[p].pc = "find"
          /\ m \in Signalled(polls[p].sigs)
          /\ Len(alertLog[m]) >= 2
          /\ alertLog[m][Len(alertLog[m])] = now
          /\ AmountOver(BuysOf(m)) > SurgeMinUSD

(***************************************************************************)
(* What each loop leaves alone.                                            *)
(***************************************************************************)
\* the steps of scanSpecificWallets and of Loop 1
TrackerOps == {"lookup", "fetched", "checked", "pass", "manual"}

\* the steps of scanGlobalMarket
PollOps == {"scanGlobalMarket", "scanAborted"}

\* C24: a step of a wallet scan leaves tradeWindow and alertCooldowns as
\* they are, a poll of the global market leaves every watchlist and every
\* stored fingerprint as it is, and tradeWindow and alertCooldowns change
\* in no step but a poll's.
C24_LoopsKeepApart ==
    [][/\ lastOp' \in TrackerOps => UNCHANGED <<tradeWindow, alertCooldowns>>
       /\ lastOp' \in PollOps => UNCHANGED db
       /\ ~ UNCHANGED <<tradeWindow, alertCooldowns>> => lastOp' \in PollOps]_vars

\* a wallet scan has sent its alert and is about to store the fingerprint
\* when a poll fills the window and stamps a cooldown
C24_Witness ==
    /\ Polled
    /\ signals # <<>>
    /\ tradeWindow # <<>>
    /\ alertCooldowns # <<>>
    /\ scan.pc = "store"
    /\ scan.alerts > 0
    /\ \E c \in DOMAIN db : \E i \in 1..Len(db[c]) : db[c][i].lastHash # Null

(***************************************************************************)
(* A store that fails after the alert went out.                            *)
(***************************************************************************)
\* the alert of the check in progress is out and its store is still to come
AlertOut == scan.pc = "store" /\ scan.alerts > 0

\* the check sent an alert and its store was rejected
StoreFailedAfterAlert ==
    WalletChecked /\ walletCheck.error /\ walletCheck.alerts > 0

\* the check observed the record whose store failed at the wallet's
\* previous check
FollowsFailedStore ==
    Observed /\ walletCheck.prior = Unstored(walletCheck.observed)

\* C30 as stated: when the alert has gone out the wallet's stored
\* fingerprint is still the old one; a store rejected after the alert
\* leaves the old one; and the next check of that wallet, if it sees the
\* same record, sends the alert again.
C30_Original ==
    /\ AlertOut =>
           db[scan.chatId][scan.i].lastHash = scan.wallets[scan.i].lastHash
    /\ StoreFailedAfterAlert => StoredNow = walletCheck.stored
    /\ WalletChecked /\ FollowsFailedStore => walletCheck.alerts = 1

(***************************************************************************)
(* Overlapping scans of one watchlist.                                     *)
(***************************************************************************)
\* C28 as stated: whatever the interleaving of the scans of one user, a
\* change of a wallet's fingerprint is alerted for at most once: no two
\* alerts are for the same wallet and the same new fingerprint.
C28_Original ==
    \A j, k \in 1..Len(alertsSent) :
        /\ alertsSent[j].chatId = alertsSent[k].chatId
        /\ alertsSent[j].i = alertsSent[k].i
        /\ alertsSent[j].to = alertsSent[k].to
        => j = k

(***************************************************************************)
(* Watchlist changes during a scan of the file-backed variant.             *)
(***************************************************************************)
FileSaved == lastOp = "fileSaved"

\* C29 as stated: when scanUser has written the file back, every wallet
\* added while the scan was awaiting a fetch is in its user's watchlist,
\* and every wallet removed meanwhile is in none of its user's.
C29_Original ==
    FileSaved =>
        /\ \A e \in fileLog.added : Holds(WalletsOf(file, e[1]), e[2])
        /\ \A e \in fileLog.removed : ~ Holds(WalletsOf(file, e[1]), e[2])

(***************************************************************************)
(* The window the polls build holds purchases only.                        *)
(***************************************************************************)
\* the upstream records the poll just fetched include a sale
FetchedSale ==
    \E m \in Markets \ pollFailed :
        \E i \in 1..Len(Fetch(m)) : Fetch(m)[i].side = "SELL"

\* C31: in every state the polls reach, every retained trade has side
\* 'Buy'; so the sells of every partition add up to 0 and the ratio filter
\* skips none, and the ratio of every signal of a poll is its totalVol.
C31_WindowOfBuys ==
    /\ \A i \in 1..Len(tradeWindow) : tradeWindow[i].side = "Buy"
    /\ \A m \in Markets :
          OfMarket(m) # {} =>
              LET data == Group(tradeWindow, m)
              IN  /\ SellVol(data) = 0
                  /\ ~ RatioSkip(SellVol(data),
                                 Ratio(BuyVol(data), SellVol(data)))
    /\ Polled =>
          \A k \in 1..Len(signals) :
              signals[k].ratio = [num |-> signals[k].totalVol, den |-> 1]

\* a poll that fetched a sale next to the purchases, and signalled
C31_Witness ==
    /\ Polled
    /\ FetchedSale
    /\ signals # <<>>
    /\ tradeWindow # <<>>

(***************************************************************************)
(* The partitions of checkSignals.                                         *)
(***************************************************************************)
\* the number of trades of sequence q that are the window's i-th trade
\* (two trades of the window can be equal)
Times(q, t) == Cardinality({k \in 1..Len(q) : q[k] = t})

\* C32: the signals of a checkSignals call have pairwise distinct market
\* identifiers; and every retained trade is in the partition of its own
\* market and in no other, there in the buys when its side is 'Buy' and in
\* the sells when its side is anything else, never in both.
C32_OnePartitionEach ==
    /\ Checked =>
          \A j, k \in 1..Len(signals) :
              signals[j].marketId = signals[k].marketId => j = k
    /\ LET ids == GroupIds(tradeWindow)
       IN  /\ \A j, k \in 1..Len(ids) : ids[j] = ids[k] => j = k
           /\ \A i \in 1..Len(tradeWindow) :
                 LET t == tradeWindow[i]
                     n == Times(tradeWindow, t)
                 IN  \A k \in 1..Len(ids) :
                        LET data == Group(tradeWindow, ids[k])
                            own == ids[k] = t.marketId
                        IN  /\ Times(data.buys, t)
                                  = IF own /\ t.side = "Buy" THEN n ELSE 0
                            /\ Times(data.sells, t)
                                  = IF own /\ t.side # "Buy" THEN n ELSE 0
           /\ \A i \in 1..Len(tradeWindow) :
                 \E k \in 1..Len(ids) : ids[k] = tradeWindow[i].marketId

\* a call that signals both markets over a window that holds a trade whose
\* side is neither 'Buy' nor 'Sell'
C32_Witness ==
    /\ Checked
    /\ Signalled(signals) = Markets
    /\ \E i \in 1..Len(tradeWindow) :
          tradeWindow[i].side \notin {"Buy", "Sell"}

\* the earliest-inserted retained trade of market m, and the latest
Earliest(m) == CHOOSE i \in OfMarket(m) : \A j \in OfMarket(m) : i <= j

Newest(m) == CHOOSE i \in OfMarket(m) : \A j \in OfMarket(m) : i >= j

\* C33: a signal carries the market name and the outcome label of the
\* earliest-inserted trade of its market that is retained, and its
\* totalVol adds the retained purchases of the market of every outcome
\* label.
C33_LabelOfEarliestTrade ==
    Checked =>
        \A k \in 1..Len(signals) :
            LET m == signals[k].marketId
            IN  /\ signals[k].marketName = tradeWindow[Earliest(m)].marketName
                /\ signals[k].outcome = tradeWindow[Earliest(m)].outcome
                /\ signals[k].totalVol = BuyVolOf(m)

\* a signal for a market whose retained purchases carry two outcome labels,
\* the newest trade carrying another label than the signal
C33_Witness ==
    /\ Checked
    /\ \E k \in 1..Len(signals) :
          LET m == signals[k].marketId
          IN  /\ {tradeWindow[i].outcome : i \in BuysOf(m)} = {"Yes", "No"}
              /\ tradeWindow[Newest(m)].outcome # signals[k].outcome
              /\ signals[k].totalVol > SurgeMinUSD + 1

(***************************************************************************)
(* What the two methods of the detector leave alone.                       *)
(***************************************************************************)
\* C34: a checkSignals call leaves tradeWindow as it is, trade for trade
\* and in the same order; an addTrade call leaves alertCooldowns as it is;
\* and the window changes in addTrade calls only.
C34_DetectorFrame ==
    [][/\ lastOp' = "checkSignals" => tradeWindow' = tradeWindow
       /\ lastOp' = "addTrade" => alertCooldowns' = alertCooldowns
       /\ tradeWindow' # tradeWindow => lastOp' = "addTrade"]_vars

\* a checkSignals call that stamped a cooldown over a window that holds a
\* trade an addTrade call at this instant would prune
C34_Witness ==
    /\ Checked
    /\ signals # <<>>
    /\ alertCooldowns # entry.cooldowns
    /\ \E i \in 1..Len(tradeWindow) :
          ~ Keep(tradeWindow[i], now - WindowMs)

(***************************************************************************)
(* addWallet.                                                              *)
(***************************************************************************)
AddReturned == lastOp = "addReturned"

\* no watchlist holds an address twice
NoAddressTwice(d) ==
    \A c \in DOMAIN d : \A j, k \in 1..Len(d[c]) :
        d[c][j].address = d[c][k].address => j = k

\* C35 as stated: addWallet returns LIMIT_REACHED on a list of 5, else
\* DUPLICATE on a list that holds the cleaned address, both with the list
\* left as it was, else it appends one wallet with the cleaned address and
\* a null fingerprint; and no watchlist ever holds an address twice.
C35_Original ==
    /\ AddReturned =>
          LET c == nameStep.chatId
              ws == WalletsOf(db, c)
          IN  /\ nameStep.event = AddReturn(nameStep.found, nameStep.clean)
              /\ nameStep.event # "SUCCESS" => ws = nameStep.found
              /\ nameStep.event = "SUCCESS" =>
                    /\ ws # <<>>
                    /\ ws[Len(ws)].address = nameStep.clean
                    /\ ws[Len(ws)].lastHash = Null
    /\ NoAddressTwice(db)

(***************************************************************************)
(* Deleting a wallet.                                                      *)
(***************************************************************************)
\* C36 as stated: a step that completes the delete of address A for chat R
\* leaves the store as it was except that R's watchlist has lost every
\* wallet with address A: R's other wallets keep their order and
\* fingerprints, the other watchlists are untouched, and an absent address
\* changes nothing.
C36_Original ==
    [][lastOp' = "deleted" =>
          db' = Pull(db, nameStep'.chatId, nameStep'.address)]_vars

(***************************************************************************)
(* The steps of the add-wallet dialogue.                                   *)
(***************************************************************************)
MessageHandled == lastOp' = "message"

\* the chat whose handler took the step
Actor ==
    IF lastOp' = "message" THEN message'.chatId
    ELSE IF lastOp' \in {"nameStepOver", "nameStepThrew"}
    THEN nameStep'.chatId
    ELSE Null

\* C37: a text starting with '/' leaves the sender's step and pending
\* address as they were; "Add Wallet" puts the sender in the address step
\* whatever its step was; in the address step any other text, a menu label
\* included, becomes the pending address (trimmed) and in the name step it
\* becomes the name of the wallet being added; and no step of a handler
\* changes the step of a chat other than its sender.
C37_StepMachine ==
    [][/\ MessageHandled =>
             LET c == message'.chatId
                 text == message'.text
                 step == userState[c].step
             IN  /\ StartsWithSlash(text) => userState'[c] = userState[c]
                 /\ text = AddWalletText =>
                        userState'[c].step = "WAITING_FOR_ADDRESS"
                 /\ ~ StartsWithSlash(text) /\ text # AddWalletText =>
                        /\ step = "WAITING_FOR_ADDRESS" =>
                               /\ message'.did = "address"
                               /\ userState'[c].step = "WAITING_FOR_NAME"
                               /\ userState'[c].tempAddress = Trim(text)
                        /\ step = "WAITING_FOR_NAME" =>
                               /\ message'.did = "name"
                               /\ Len(inflight') = Len(inflight) + 1
                               /\ inflight'[Len(inflight')].chatId = c
                               /\ inflight'[Len(inflight')].text = text
       /\ \A c \in Chats :
             userState'[c].step # userState[c].step => c = Actor]_vars

\* a menu label was received in the name step and taken as the name, and
\* one in the address step had become the pending address
C37_Witness ==
    /\ lastOp = "message"
    /\ message.text \in MenuTexts
    /\ message.did = "name"
    /\ userState[message.chatId].tempAddress \in MenuTexts

(***************************************************************************)
(* Termination of the periodic work.                                       *)
(***************************************************************************)
PassRunning == pass.pc = "running"

PassOver == pass.pc = "ended"

Range(seq) == {seq[k] : k \in 1..Len(seq)}

\* every user the pass listed was scanned to the end of its watchlist
EachListedUserScanned ==
    PassOver => \A c \in Range(pass.users) : c \in pass.scanned

\* a scan of a pass that returned checked each of its wallets
EachWalletChecked ==
    ended.how = "returned" /\ ~ ended.isManual =>
        ended.checks = 1..ended.count

\* what a scan started by the timer has sent is alerts only
OnlyAlerts(sent) == \A k \in 1..Len(sent) : sent[k] = "alert"

PeriodicSendsAlertsOnly ==
    /\ scan # NoScan => (~ scan.isManual => OnlyAlerts(scan.sent))
    /\ ended.how # "none" => (~ ended.isManual => OnlyAlerts(ended.sent))

PassTerminates == PassRunning ~> ~ PassRunning

\* a poll in progress returns
PollTerminates == (polls[1].pc # "idle") ~> (polls[1].pc = "idle")

\* C38 as stated, for the wallet passes: when every lookup, fetch and store
\* returns or fails, a pass ends, and it ends with each wallet of each user
\* it listed checked; its scans send alerts only, never the "empty
\* watchlist" or "no new trades" notices.
C38_Original ==
    /\ [](EachListedUserScanned /\ EachWalletChecked)
    /\ []PeriodicSendsAlertsOnly
    /\ PassTerminates

=============================================================================
